---- MODULE Spec2Model ----
(***************************************************************************)
(* Catchonika (src/js/catchonika.js, lines 560-1409): MIDI capture into a  *)
(* rolling buffer, sustain-pedal tracking, idle-timeout takes, and the     *)
(* reconstruction of note intervals from a slice of the buffer.            *)
(*                                                                         *)
(* Times are clock ticks relative to _start, TicksPerMs of them to the     *)
(* millisecond.  A JS Map is a function whose DOMAIN is the set of keys    *)
(* present; a JS Set, and a Map that the code iterates, is a               *)
(* duplicate-free sequence in insertion order (the order forEach /         *)
(* entries() visit).  One input port is modelled, so the inputId /         *)
(* inputName fields of an event are left out.                              *)
(***************************************************************************)
EXTENDS Integers, Sequences, FiniteSets, TLC

VARIABLES
    now,             \* ts() - this._start, the clock reading
    events,          \* this._events
    active,          \* this._active: "ch:note" -> {tOn, vel}
    sustain,         \* this._sustain: ch -> bool (absent reads as false)
    pendingRelease,  \* this._pendingRelease: ch -> Set(keys)
    takes,           \* this._takes
    currentTake,     \* this._currentTake
    idleTimer,       \* this._idleTimer: the pending timeout, with its due time
    timeouts,        \* the due times of the pending setTimeout(() => _endTake())
    takeIdleMs,      \* this.settings.takeIdleSeconds * 1000
    stored,          \* localStorage[STORAGE_KEY], parsed
    exported,        \* the last file _saveRange wrote, as <<notesByTrack>>; <<>> if none
    midi,            \* the tracks of that file, as <<tracks>>; <<>> if none
    thrown,          \* the message of the last error that left a callback; "" if none
    midiAccess,      \* the request of _initMIDI and this._midi: "pending", "granted"
                     \* (this._midi is set), "denied", "released" (destroy() reset it)
    attached,        \* input.onmidimessage is the handler of this instance
    gcInterval,      \* the setInterval of _gc is set
    destroyed        \* destroy() has returned

vars == <<now, events, active, sustain, pendingRelease, takes, currentTake, idleTimer,
          timeouts, takeIdleMs, stored, exported, midi, thrown,
          midiAccess, attached, gcInterval, destroyed>>

\* what a MIDI message, a timer or the clock never touches
pageVars == <<takeIdleMs, stored, exported, midi, thrown>>

\* what an export writes
fileVars == <<exported, midi, thrown>>

\* what the constructor sets up and destroy() takes down
lifeVars == <<midiAccess, attached, gcInterval, destroyed>>

\* the take machine
takeVars == <<takes, currentTake, idleTimer, timeouts>>

(* ------------------------------ bounds -------------------------------- *)

\* The clock is read at 0 .. MaxTime.
MaxTime == 2

\* Spec takes a message only while the buffer holds fewer events than this.
MaxEvents == 4

\* SpecChannels takes a message only while the buffer holds fewer events than
\* this.
MaxChannelEvents == 3

\* SpecKeys takes a message only while the buffer holds fewer events than this.
MaxKeyEvents == 4

\* SpecSustain takes a message only while the buffer holds fewer events than
\* this.
MaxSustainEvents == 4

\* SpecPedal takes a message only while the buffer holds fewer events than this.
MaxPedalEvents == 6

\* SpecTakes takes a message only while the buffer holds fewer events than this.
MaxTakeEvents == 3

\* settings.bufferMinutes * 60 * 1000, scaled to the clock of the model
MaxMs == 1

\* opts.takeIdleSeconds * 1000, scaled to the clock of the model
IdleMs == 1

\* SpecPage takes a message only while the buffer holds fewer events than this.
MaxPageEvents == 3

\* SpecOps takes a message only while the buffer holds fewer events than this.
MaxOpEvents == 2

\* SpecExport takes a message only while the buffer holds fewer events than
\* this.
MaxExportEvents == 3

\* the least time, in milliseconds, between the last callback of a page and
\* the constructor of the page that replaces it
MinReloadMs == 2

\* events in the buffer of a page whose storage is damaged
MaxRestoreEvents == 2

\* SpecTwoChannels takes a message only while the buffer holds fewer events
\* than this.
MaxTwoChannelEvents == 5

\* SpecIdle takes a message only while the buffer holds fewer events than this.
MaxIdleEvents == 2

\* events of a capture with empty and truncated messages
MaxShortEvents == 3

\* the encoder's inputs: the latest time of an interval, in clock ticks, the
\* number of intervals of one export, and the fastest tempo
MaxEncTime == 6
MaxEncNotes == 2
MaxBpm == 300

(* ---------------------------- JS values -------------------------------- *)

\* undefined: a data byte past the end of message.data
Undefined == -1

\* NaN: parseInt of a key part that is not a number
NaN == -2

\* null, for _currentTake and _idleTimer
Null == [null |-> TRUE]

Max(a, b) == IF a >= b THEN a ELSE b

Min(a, b) == IF a <= b THEN a ELSE b

\* data[i] of a JS array (0-based) held as a sequence
Byte(data, i) == IF i + 1 <= Len(data) THEN data[i + 1] ELSE Undefined

\* status & 0xf0
TypeOf(status) == (status \div 16) * 16

\* (status & 0x0f) + 1
ChannelOf(status) == (status % 16) + 1

\* `${ch}:${note}`
KeyOf(ch, note) == <<ch, note>>

\* parseInt(key.split(":")[1], 10)
NoteOfKey(key) == IF key[2] = Undefined THEN NaN ELSE key[2]

\* parseInt(key.split(":")[0], 10)
ChOfKey(key) == key[1]

\* Set.add: a key already in the set keeps its place
SetAdd(s, k) == IF \E i \in 1..Len(s) : s[i] = k THEN s ELSE Append(s, k)

\* the keys of a Set, as a TLA+ set
Elems(s) == {s[i] : i \in 1..Len(s)}

\* Map.delete on a Map held as a function
MapDelete(m, k) == [x \in (DOMAIN m) \ {k} |-> m[x]]

\* Map.set on a Map held as a function
MapSet(m, k, v) == [x \in (DOMAIN m) \cup {k} |-> IF x = k THEN v ELSE m[x]]

(* ------------------------------ inputs --------------------------------- *)

Channels == {1, 2}

\* message.data of the messages of one channel: notes 60 and 64 and the
\* sustain pedal of channel 1
NoteMsgs ==
    {<<144, 60, 100>>, <<144, 64, 90>>,       \* note-on
     <<128, 60, 0>>, <<128, 64, 0>>,          \* note-off
     <<176, 64, 127>>, <<176, 64, 0>>}        \* sustain down / up

\* message.data of the messages of two keys of channel 1, without the pedal
KeyMsgs ==
    {<<144, 60, 100>>, <<144, 64, 90>>,       \* note-on
     <<128, 60, 0>>, <<128, 64, 0>>}          \* note-off

\* message.data of the messages of one key of channel 1 and its pedal
SustainMsgs ==
    {<<144, 60, 100>>, <<128, 60, 0>>,        \* note-on, note-off
     <<176, 64, 127>>, <<176, 64, 0>>}        \* sustain down / up

\* message.data of the messages of two channels: note 60 of each, and the
\* pedal of channel 1
Msgs ==
    {<<144, 60, 100>>, <<128, 60, 0>>,        \* note-on, note-off, channel 1
     <<144, 60, 0>>,                          \* note-on with velocity 0, channel 1
     <<176, 64, 64>>, <<176, 64, 63>>,        \* sustain down / up, channel 1
     <<145, 60, 100>>, <<129, 60, 0>>}        \* note-on, note-off, channel 2

\* message.data of the messages of two channels: note 60 and the pedal of each
ChannelMsgs ==
    Msgs \cup {<<177, 64, 127>>, <<177, 64, 0>>}   \* sustain down / up, channel 2

\* message.data of note 60 and the pedal of each of two channels
TwoChannelMsgs ==
    {<<144, 60, 100>>, <<128, 60, 0>>,        \* note-on, note-off, channel 1
     <<176, 64, 127>>, <<176, 64, 0>>,        \* sustain down / up, channel 1
     <<145, 60, 90>>, <<129, 60, 0>>,         \* note-on, note-off, channel 2
     <<177, 64, 127>>, <<177, 64, 0>>}        \* sustain down / up, channel 2

\* message.data of the messages of key 60 and the sustain pedal of channel 1
PageMsgs == {<<144, 60, 100>>, <<128, 60, 0>>, <<176, 64, 127>>, <<176, 64, 0>>}

\* message.data of the NoteOn and the NoteOff of key 60
KeyMsgsOfPage == {<<144, 60, 100>>, <<128, 60, 0>>}

\* message.data of one message of every branch of _onMIDIMessage
TakeMsgs ==
    {<<144, 60, 100>>, <<128, 60, 0>>,        \* note-on, note-off
     <<176, 64, 127>>, <<176, 64, 0>>,        \* sustain down / up
     <<176, 1, 5>>,                           \* modulation wheel
     <<224, 0, 64>>,                          \* pitch bend, centred
     <<192, 5>>}                              \* program change

\* message.data without its data bytes: a NoteOn without velocity and
\* without key, a NoteOff, a controller and a sustain message without value,
\* a pitch bend without value
TruncatedMsgs == {<<144, 60>>, <<144>>, <<128>>, <<176>>, <<176, 64>>, <<224>>}

\* message.data of a capture with empty and truncated messages among a
\* NoteOn and a pedal-down
ShortMsgs == {<<>>} \cup TruncatedMsgs \cup {<<144, 60, 100>>, <<176, 64, 127>>}

\* what the "Idle s" input may read, times 1000: not above zero, or a timeout
IdleInputs == {0, IdleMs, IdleMs + 1}

(* ------------------------------ takes ---------------------------------- *)

\* The take state the handlers thread through: _currentTake, _idleTimer and
\* the timeouts that are pending.
TakeState(cur, timer, pending) == [cur |-> cur, timer |-> timer, timeouts |-> pending]

\* setTimeout(..., idle) called at clock reading t: the handle it returns
IdleTimerDue(t, idle) == [due |-> t + idle]

\* clearTimeout(handle)
ClearTimeout(pending, handle) == IF handle = Null THEN pending ELSE pending \ {handle.due}

\* a _resetIdleTimer that sets the new timeout and leaves the old one pending
ResetIdleTimer_NoCancel(tk, t, idle) ==
    TakeState(tk.cur, IdleTimerDue(t, idle), tk.timeouts \cup {t + idle})

\* _resetIdleTimer with settings.takeIdleSeconds * 1000 = idle: the pending
\* timeout is cleared and a new one is set
ResetIdleTimer(tk, t, idle) ==
    TakeState(tk.cur, IdleTimerDue(t, idle),
              ClearTimeout(tk.timeouts, tk.timer) \cup {t + idle})

\* a _startTake that opens the take and arms no timer
StartTake_NoTimer(tk, t) ==
    IF tk.cur # Null THEN tk
    ELSE [tk EXCEPT !.cur = [startMs |-> t, lastActivityMs |-> t]]

\* _startTake(t), called at clock reading t
StartTake(tk, t) ==
    IF tk.cur # Null THEN tk
    ELSE ResetIdleTimer([tk EXCEPT !.cur = [startMs |-> t, lastActivityMs |-> t]],
                        t, takeIdleMs)

\* a _markActivity that opens a Take when none is open
MarkActivity_Opens(tk, t) ==
    IF tk.cur # Null
    THEN ResetIdleTimer([tk EXCEPT !.cur.lastActivityMs = t], t, takeIdleMs)
    ELSE StartTake(tk, t)

\* _markActivity(t)
MarkActivity(tk, t) ==
    IF tk.cur # Null
    THEN ResetIdleTimer([tk EXCEPT !.cur.lastActivityMs = t], t, takeIdleMs)
    ELSE tk

(* ------------------------------ events --------------------------------- *)

NoteOnEvent(t, ch, note, vel) ==
    [t |-> t, type |-> "noteon", ch |-> ch, note |-> note, vel |-> vel]

NoteOffEvent(t, ch, note) ==
    [t |-> t, type |-> "noteoff", ch |-> ch, note |-> note]

NoteOffDeferredEvent(t, ch, note) ==
    [t |-> t, type |-> "noteoff_deferred", ch |-> ch, note |-> note]

CcEvent(t, ch, cc, val) ==
    [t |-> t, type |-> "cc", ch |-> ch, cc |-> cc, val |-> val]

PitchBendEvent(t, ch, value) ==
    [t |-> t, type |-> "pitchbend", ch |-> ch, value |-> value]

RawEvent(t, ch, bytes) ==
    [t |-> t, type |-> "raw", bytes |-> bytes, ch |-> ch]

(* --------------------------- sustain tracker --------------------------- *)

\* The capture state the handlers thread through.
CaptureState(ev, act, sus, pend) ==
    [events |-> ev, active |-> act, sustain |-> sus, pending |-> pend]

\* a pedal test that is true while the pedal of any channel is down
SustainDown_AnyChannel(sus, c) == \E d \in DOMAIN sus : sus[d] = TRUE

\* sustainDown(c): this._sustain.get(c) === true
SustainDown(sus, c) == sus[c] = TRUE

\* _handleNoteOff with the ActiveNote deleted in the deferred branch too
HandleNoteOff_DeleteOnDefer(cs, t, ch, note) ==
    LET key == KeyOf(ch, note) IN
    IF key \notin DOMAIN cs.active
    THEN [cs EXCEPT !.events = Append(@, NoteOffEvent(t, ch, note))]
    ELSE IF SustainDown(cs.sustain, ch)
    THEN [cs EXCEPT !.pending[ch] = SetAdd(@, key),
                    !.events = Append(@, NoteOffDeferredEvent(t, ch, note)),
                    !.active = MapDelete(@, key)]
    ELSE [cs EXCEPT !.events = Append(@, NoteOffEvent(t, ch, note)),
                    !.active = MapDelete(@, key)]

\* _handleNoteOff without the delete of the immediate branch
HandleNoteOff_KeepActive(cs, t, ch, note) ==
    LET key == KeyOf(ch, note) IN
    IF key \notin DOMAIN cs.active
    THEN [cs EXCEPT !.events = Append(@, NoteOffEvent(t, ch, note))]
    ELSE IF SustainDown(cs.sustain, ch)
    THEN [cs EXCEPT !.pending[ch] = SetAdd(@, key),
                    !.events = Append(@, NoteOffDeferredEvent(t, ch, note))]
    ELSE [cs EXCEPT !.events = Append(@, NoteOffEvent(t, ch, note))]

\* _handleNoteOff with the pedal tested before the ActiveNote lookup
HandleNoteOff_PedalFirst(cs, t, ch, note) ==
    LET key == KeyOf(ch, note) IN
    IF SustainDown(cs.sustain, ch)
    THEN [cs EXCEPT !.pending[ch] = SetAdd(@, key),
                    !.events = Append(@, NoteOffDeferredEvent(t, ch, note))]
    ELSE IF key \notin DOMAIN cs.active
    THEN [cs EXCEPT !.events = Append(@, NoteOffEvent(t, ch, note))]
    ELSE [cs EXCEPT !.events = Append(@, NoteOffEvent(t, ch, note)),
                    !.active = MapDelete(@, key)]

\* _handleNoteOff(t, ch, note, ...)
HandleNoteOff(cs, t, ch, note) ==
    LET key == KeyOf(ch, note) IN
    IF key \notin DOMAIN cs.active
    THEN [cs EXCEPT !.events = Append(@, NoteOffEvent(t, ch, note))]
    ELSE IF SustainDown(cs.sustain, ch)
    THEN [cs EXCEPT !.pending[ch] = SetAdd(@, key),
                    !.events = Append(@, NoteOffDeferredEvent(t, ch, note))]
    ELSE [cs EXCEPT !.events = Append(@, NoteOffEvent(t, ch, note)),
                    !.active = MapDelete(@, key)]

\* the flush stopping after the first pending key
FlushKeys_FirstOnly(cs, keys, i, t, ch) ==
    IF i > Len(keys) \/ i > 1 THEN cs
    ELSE IF keys[i] \in DOMAIN cs.active
    THEN [cs EXCEPT !.events = Append(@, NoteOffEvent(t, ch, NoteOfKey(keys[i]))),
                    !.active = MapDelete(@, keys[i])]
    ELSE cs

\* keys.forEach(...) of the pedal-up flush, over the keys from index i on:
\* a note-off at t for each pending key that is active, which is then deleted
RECURSIVE FlushKeys(_, _, _, _, _)
FlushKeys(cs, keys, i, t, ch) ==
    IF i > Len(keys) THEN cs
    ELSE LET key == keys[i]
             next == IF key \in DOMAIN cs.active
                     THEN [cs EXCEPT !.events = Append(@, NoteOffEvent(t, ch, NoteOfKey(key))),
                                     !.active = MapDelete(@, key)]
                     ELSE cs
         IN FlushKeys(next, keys, i + 1, t, ch)

\* the pedal edge with keys.clear() left out
SustainChange_NoClear(cs, t, ch, val) ==
    LET wasDown == SustainDown(cs.sustain, ch)
        nowDown == val >= 64
        set == [cs EXCEPT !.sustain[ch] = nowDown]
    IN IF wasDown /\ ~nowDown
       THEN FlushKeys(set, set.pending[ch], 1, t, ch)
       ELSE set

\* the cc === 64 branch of _onMIDIMessage: the pedal edge and the flush
SustainChange(cs, t, ch, val) ==
    LET wasDown == SustainDown(cs.sustain, ch)
        nowDown == val >= 64
        set == [cs EXCEPT !.sustain[ch] = nowDown]
    IN IF wasDown /\ ~nowDown
       THEN [FlushKeys(set, set.pending[ch], 1, t, ch) EXCEPT !.pending[ch] = <<>>]
       ELSE set

(* ---------------------------- _onMIDIMessage --------------------------- *)

\* the type === 0x90 branch
NoteOnMessage(cs, tk, t, ch, data) ==
    LET note == Byte(data, 1)
        vel == IF Byte(data, 2) = Undefined THEN 0 ELSE Byte(data, 2)
    IN IF vel > 0
       THEN [cs |-> [cs EXCEPT !.events = Append(@, NoteOnEvent(t, ch, note, vel)),
                               !.active = MapSet(@, KeyOf(ch, note), [tOn |-> t, vel |-> vel])],
             tk |-> StartTake(tk, t)]
       ELSE [cs |-> HandleNoteOff(cs, t, ch, note), tk |-> tk]

\* the type === 0x80 branch
NoteOffMessage(cs, tk, t, ch, data) ==
    [cs |-> HandleNoteOff(cs, t, ch, Byte(data, 1)), tk |-> tk]

\* the type === 0xb0 branch
ControlChangeMessage(cs, tk, t, ch, data) ==
    LET cc == Byte(data, 1)
        val == IF Byte(data, 2) = Undefined THEN 0 ELSE Byte(data, 2)
        tk1 == IF tk.cur = Null /\ cc # 64 THEN StartTake(tk, t) ELSE tk
        cs1 == [cs EXCEPT !.events = Append(@, CcEvent(t, ch, cc, val))]
    IN IF cc = 64
       THEN [cs |-> SustainChange(cs1, t, ch, val),
             tk |-> IF ~SustainDown(cs.sustain, ch) /\ val >= 64
                    THEN StartTake(tk1, t) ELSE tk1]
       ELSE [cs |-> cs1, tk |-> tk1]

\* the type === 0xe0 branch
PitchBendMessage(cs, tk, t, ch, data) ==
    LET lsb == IF Byte(data, 1) = Undefined THEN 0 ELSE Byte(data, 1)
        msb == IF Byte(data, 2) = Undefined THEN 0 ELSE Byte(data, 2)
        value == (msb * 128 + lsb) - 8192
    IN [cs |-> [cs EXCEPT !.events = Append(@, PitchBendEvent(t, ch, value))],
        tk |-> StartTake(tk, t)]

\* the fall-through of _onMIDIMessage: any other status byte
RawMessage(cs, tk, t, ch, data) ==
    [cs |-> [cs EXCEPT !.events = Append(@, RawEvent(t, ch, data))], tk |-> tk]

\* the state _onMIDIMessage(input, message) leaves, message.data non-empty
Dispatch(cs, tk0, t, data) ==
    LET type == TypeOf(data[1])
        ch == ChannelOf(data[1])
        tk == MarkActivity(tk0, t)
    IN CASE type = 144 -> NoteOnMessage(cs, tk, t, ch, data)
         [] type = 128 -> NoteOffMessage(cs, tk, t, ch, data)
         [] type = 176 -> ControlChangeMessage(cs, tk, t, ch, data)
         [] type = 224 -> PitchBendMessage(cs, tk, t, ch, data)
         [] OTHER -> RawMessage(cs, tk, t, ch, data)

(* --------------------------- reconstruction ---------------------------- *)

\* A Map the code iterates: a sequence of [key, val] entries in insertion order.
RECURSIVE EntryIndex(_, _, _)
EntryIndex(m, k, i) ==
    IF i > Len(m) THEN 0 ELSE IF m[i].key = k THEN i ELSE EntryIndex(m, k, i + 1)

\* Map.has
EntryHas(m, k) == EntryIndex(m, k, 1) # 0

\* Map.get of a key that is present
EntryGet(m, k) == m[EntryIndex(m, k, 1)].val

\* Map.set: a key that is present keeps its place
EntrySet(m, k, v) ==
    IF EntryHas(m, k)
    THEN [m EXCEPT ![EntryIndex(m, k, 1)] = [key |-> k, val |-> v]]
    ELSE Append(m, [key |-> k, val |-> v])

\* Map.delete
EntryDelete(m, k) == SelectSeq(m, LAMBDA e : e.key # k)

\* a pushNote that does not clamp
PushNote_Unclamped(notes, windowStart, windowEnd, ch, note, tOn, tOff, vel) ==
    LET endMs == IF tOff = Undefined THEN windowEnd ELSE tOff
    IN IF endMs > tOn
       THEN Append(notes, [ch |-> ch, note |-> note, startMs |-> tOn,
                           endMs |-> endMs, vel |-> vel])
       ELSE notes

\* pushNote of _reconstructNotes: the interval clamped to the window, kept
\* when it is longer than zero
PushNote(notes, windowStart, windowEnd, ch, note, tOn, tOff, vel) ==
    LET startMs == Max(windowStart, Min(windowEnd, tOn))
        endMs == Max(windowStart, Min(windowEnd, IF tOff = Undefined THEN windowEnd ELSE tOff))
    IN IF endMs > startMs
       THEN Append(notes, [ch |-> ch, note |-> note, startMs |-> startMs,
                           endMs |-> endMs, vel |-> vel])
       ELSE notes

\* the local state of _reconstructNotes before the first event
ReplayInit ==
    [active |-> <<>>, sustain |-> [c \in Channels |-> FALSE],
     pending |-> [c \in Channels |-> <<>>], notes |-> <<>>]

\* keys.forEach(...) of the local pedal-up flush, over the keys from index i on
RECURSIVE ReplayFlush(_, _, _, _, _, _)
ReplayFlush(ls, keys, i, e, windowStart, windowEnd) ==
    IF i > Len(keys) THEN ls
    ELSE LET key == keys[i]
             next == IF EntryHas(ls.active, key)
                     THEN LET st == EntryGet(ls.active, key) IN
                          [ls EXCEPT !.notes = PushNote(@, windowStart, windowEnd, e.ch,
                                                        NoteOfKey(key), st.tOn, e.t, st.vel),
                                     !.active = EntryDelete(@, key)]
                     ELSE ls
         IN ReplayFlush(next, keys, i + 1, e, windowStart, windowEnd)

\* a loop turn that asks for the pedal before it looks the key up
ReplayEvent_PedalFirst(ls, e, windowStart, windowEnd) ==
    IF e.type = "cc" /\ e.cc = 64
    THEN LET down == e.val >= 64
             was == ls.sustain[e.ch] = TRUE
             set == [ls EXCEPT !.sustain[e.ch] = down]
         IN IF was /\ ~down
            THEN [ReplayFlush(set, set.pending[e.ch], 1, e, windowStart, windowEnd)
                    EXCEPT !.pending[e.ch] = <<>>]
            ELSE set
    ELSE IF e.type = "noteon"
    THEN [ls EXCEPT !.active = EntrySet(@, KeyOf(e.ch, e.note), [tOn |-> e.t, vel |-> e.vel])]
    ELSE IF e.type = "noteoff" \/ e.type = "noteoff_deferred"
    THEN LET key == KeyOf(e.ch, e.note) IN
         IF ls.sustain[e.ch]
         THEN [ls EXCEPT !.pending[e.ch] = SetAdd(@, key)]
         ELSE IF ~EntryHas(ls.active, key) THEN ls
         ELSE LET st == EntryGet(ls.active, key) IN
              [ls EXCEPT !.notes = PushNote(@, windowStart, windowEnd, e.ch, e.note,
                                            st.tOn, e.t, st.vel),
                         !.active = EntryDelete(@, key)]
    ELSE ls

\* a loop turn that takes only a NoteOff for a termination
ReplayEvent_DeferredIgnored(ls, e, windowStart, windowEnd) ==
    IF e.type = "cc" /\ e.cc = 64
    THEN LET down == e.val >= 64
             was == ls.sustain[e.ch] = TRUE
             set == [ls EXCEPT !.sustain[e.ch] = down]
         IN IF was /\ ~down
            THEN [ReplayFlush(set, set.pending[e.ch], 1, e, windowStart, windowEnd)
                    EXCEPT !.pending[e.ch] = <<>>]
            ELSE set
    ELSE IF e.type = "noteon"
    THEN [ls EXCEPT !.active = EntrySet(@, KeyOf(e.ch, e.note), [tOn |-> e.t, vel |-> e.vel])]
    ELSE IF e.type = "noteoff"
    THEN LET key == KeyOf(e.ch, e.note) IN
         IF ~EntryHas(ls.active, key) THEN ls
         ELSE IF ls.sustain[e.ch]
         THEN [ls EXCEPT !.pending[e.ch] = SetAdd(@, key)]
         ELSE LET st == EntryGet(ls.active, key) IN
              [ls EXCEPT !.notes = PushNote(@, windowStart, windowEnd, e.ch, e.note,
                                            st.tOn, e.t, st.vel),
                         !.active = EntryDelete(@, key)]
    ELSE ls

\* one turn of the loop "for (const e of events)" of _reconstructNotes
ReplayEvent(ls, e, windowStart, windowEnd) ==
    IF e.type = "cc" /\ e.cc = 64
    THEN LET down == e.val >= 64
             was == ls.sustain[e.ch] = TRUE
             set == [ls EXCEPT !.sustain[e.ch] = down]
         IN IF was /\ ~down
            THEN [ReplayFlush(set, set.pending[e.ch], 1, e, windowStart, windowEnd)
                    EXCEPT !.pending[e.ch] = <<>>]
            ELSE set
    ELSE IF e.type = "noteon"
    THEN [ls EXCEPT !.active = EntrySet(@, KeyOf(e.ch, e.note), [tOn |-> e.t, vel |-> e.vel])]
    ELSE IF e.type = "noteoff" \/ e.type = "noteoff_deferred"
    THEN LET key == KeyOf(e.ch, e.note) IN
         IF ~EntryHas(ls.active, key) THEN ls
         ELSE IF ls.sustain[e.ch]
         THEN [ls EXCEPT !.pending[e.ch] = SetAdd(@, key)]
         ELSE LET st == EntryGet(ls.active, key) IN
              [ls EXCEPT !.notes = PushNote(@, windowStart, windowEnd, e.ch, e.note,
                                            st.tOn, e.t, st.vel),
                         !.active = EntryDelete(@, key)]
    ELSE ls

\* the loop of _reconstructNotes over the events from index i on
RECURSIVE Replay(_, _, _, _, _)
Replay(ls, evs, i, windowStart, windowEnd) ==
    IF i > Len(evs) THEN ls
    ELSE Replay(ReplayEvent(ls, evs[i], windowStart, windowEnd), evs, i + 1,
                windowStart, windowEnd)

\* an end of replay that leaves the open notes out
Truncate_DropOpen(notes, act, i, windowStart, windowEnd) == notes

\* the loop "for (const [key, st] of active.entries())": every note still
\* open is pushed with windowEnd as its end
RECURSIVE Truncate(_, _, _, _, _)
Truncate(notes, act, i, windowStart, windowEnd) ==
    IF i > Len(act) THEN notes
    ELSE Truncate(PushNote(notes, windowStart, windowEnd, ChOfKey(act[i].key),
                           NoteOfKey(act[i].key), act[i].val.tOn, windowEnd, act[i].val.vel),
                  act, i + 1, windowStart, windowEnd)

\* the array `notes` of _reconstructNotes when both loops are done
ReplayNotes(evs, windowStart, windowEnd) ==
    LET ls == Replay(ReplayInit, evs, 1, windowStart, windowEnd)
    IN Truncate(ls.notes, ls.active, 1, windowStart, windowEnd)

\* Array.prototype.sort((a, b) => a[field] - b[field]): a stable sort, here
\* by insertion into the sorted prefix after every element that is not larger
RECURSIVE InsertBy(_, _, _)
InsertBy(sorted, x, field) ==
    IF sorted = <<>> THEN <<x>>
    ELSE IF sorted[Len(sorted)][field] <= x[field] THEN Append(sorted, x)
    ELSE Append(InsertBy(SubSeq(sorted, 1, Len(sorted) - 1), x, field), sorted[Len(sorted)])

RECURSIVE SortBy(_, _)
SortBy(seq, field) ==
    IF seq = <<>> THEN <<>>
    ELSE InsertBy(SortBy(SubSeq(seq, 1, Len(seq) - 1), field), seq[Len(seq)], field)

\* trackKeyFor: `ch-${ch}` is held as ch, `main` as 0
TrackKeyFor(groupByChannel, ch) == IF groupByChannel THEN ch ELSE 0

\* the Map byTrack filled from `notes`, from index i on
RECURSIVE GroupByTrack(_, _, _, _)
GroupByTrack(byTrack, notes, i, groupByChannel) ==
    IF i > Len(notes) THEN byTrack
    ELSE LET k == TrackKeyFor(groupByChannel, notes[i].ch)
             arr == IF EntryHas(byTrack, k) THEN EntryGet(byTrack, k) ELSE <<>>
         IN GroupByTrack(EntrySet(byTrack, k, Append(arr, notes[i])), notes, i + 1,
                         groupByChannel)

\* the Map byTrack of _reconstructNotes for the intervals `notes`, each track
\* sorted by startMs
ByTrack(notes, groupByChannel) ==
    LET byTrack == GroupByTrack(<<>>, notes, 1, groupByChannel)
    IN [i \in 1..Len(byTrack) |->
          [key |-> byTrack[i].key, val |-> SortBy(byTrack[i].val, "startMs")]]

\* _reconstructNotes(events, windowStart, windowEnd): the Map byTrack, each
\* track sorted by startMs
ReconstructNotes(evs, windowStart, windowEnd, groupByChannel) ==
    ByTrack(ReplayNotes(evs, windowStart, windowEnd), groupByChannel)

\* the events _saveRange hands to _reconstructNotes: those of the buffer
\* with startMs <= t <= endMs, sorted by t
RangeEvents(evs, startMs, endMs) ==
    SortBy(SelectSeq(evs, LAMBDA e : e.t >= startMs /\ e.t <= endMs), "t")

\* notesByTrack of _saveRange(startMs, endMs)
SaveRangeNotes(evs, startMs, endMs, groupByChannel) ==
    ReconstructNotes(RangeEvents(evs, startMs, endMs), startMs, endMs, groupByChannel)

\* every interval of notesByTrack, as a set
AllNotes(byTrack) ==
    UNION {{byTrack[i].val[j] : j \in 1..Len(byTrack[i].val)} : i \in 1..Len(byTrack)}

(* ---------------------------- persistence ------------------------------ *)

\* the ticks of ts() in one millisecond: performance.now() reads fractions
\* of a millisecond, Date.now() whole milliseconds
TicksPerMs == 2

\* this._startEpoch of a page that found no stored state: Date.now()
StartEpoch == 1000 * TicksPerMs

\* the whole millisecond at or before x
FloorMs(x) == (x \div TicksPerMs) * TicksPerMs

\* Math.round: the nearest whole millisecond, a half rounds up
Round(x) == ((2 * x + TicksPerMs) \div (2 * TicksPerMs)) * TicksPerMs

\* toAbs
ToAbs(rel) == StartEpoch + rel

\* the properties of an event that hold a number
NumberFields == {"note", "vel", "cc", "val", "value"}

\* the properties JSON.stringify writes: one whose value is undefined is
\* left out
JsonFields(e) == {f \in DOMAIN e : ~(f \in NumberFields /\ e[f] = Undefined)}

\* { tAbs: Math.round(toAbs(t)), ...rest } through JSON: a tAbs that rest
\* carries from an earlier restore wins, NaN is written as null
StoredEvent(e) ==
    [f \in (JsonFields(e) \ {"t"}) \cup {"tAbs"} |->
        IF f = "tAbs"
        THEN IF "tAbs" \in DOMAIN e THEN e.tAbs ELSE Round(ToAbs(e.t))
        ELSE IF f \in NumberFields /\ e[f] = NaN THEN Null ELSE e[f]]

\* a stored take whose end is cut to the whole millisecond, not rounded
StoredTake_Floor(tk) ==
    [startAbs |-> Round(ToAbs(tk.startMs)), endAbs |-> FloorMs(ToAbs(tk.endMs))]

\* { startAbs, endAbs } of a take of _takes; endAbs: null is held as a
\* record without endAbs
StoredTake(tk) ==
    IF "endMs" \in DOMAIN tk
    THEN [startAbs |-> Round(ToAbs(tk.startMs)), endAbs |-> Round(ToAbs(tk.endMs))]
    ELSE [startAbs |-> Round(ToAbs(tk.startMs))]

\* prunedEvents of _saveState at the clock reading t
PrunedEvents(evs, t) == SelectSeq(evs, LAMBDA e : e.t >= Max(0, t - MaxMs))

\* `state` of _saveState
StateToStore(evs, tks, t, idle) ==
    LET pruned == PrunedEvents(evs, t)
    IN [baseEpoch |-> StartEpoch,
        settings |-> [takeIdleMs |-> idle],
        events |-> [i \in 1..Len(pruned) |-> StoredEvent(pruned[i])],
        takes |-> [i \in 1..Len(tks) |-> StoredTake(tks[i])]]

\* `trimmed` of _saveState: state.events.slice(Math.floor(length / 2))
Trimmed(state) ==
    [state EXCEPT !.events = SubSeq(@, (Len(@) \div 2) + 1, Len(@))]

\* a restored event that keeps the stored time as it is
RestoredEvent_Absolute(e, baseEpoch) ==
    [f \in (DOMAIN e) \cup {"t"} |->
        IF f = "t" THEN (IF "tAbs" \in DOMAIN e THEN e.tAbs ELSE 0) ELSE e[f]]

\* { ...e, t: Math.max(0, (e.tAbs ?? 0) - this._startEpoch) }
RestoredEvent(e, baseEpoch) ==
    [f \in (DOMAIN e) \cup {"t"} |->
        IF f = "t"
        THEN Max(0, (IF "tAbs" \in DOMAIN e THEN e.tAbs ELSE 0) - baseEpoch)
        ELSE e[f]]

\* a take of state.takes, relative again; endMs: null is held as a record
\* without endMs
RestoredTake(tk, baseEpoch) ==
    LET startMs == Max(0, (IF "startAbs" \in DOMAIN tk THEN tk.startAbs ELSE 0) - baseEpoch)
    IN IF "endAbs" \in DOMAIN tk
       THEN [startMs |-> startMs, endMs |-> Max(0, tk.endAbs - baseEpoch)]
       ELSE [startMs |-> startMs]

\* state.takes.map(...).filter((tk) => tk.endMs != null)
RestoredTakes(stakes, baseEpoch) ==
    SelectSeq([i \in 1..Len(stakes) |-> RestoredTake(stakes[i], baseEpoch)],
              LAMBDA tk : "endMs" \in DOMAIN tk)

\* a _loadState that leaves _start at the time of the page load
LoadClock_FromLoad(t, phase) == 0

\* ts() - this._start as _loadState leaves it, nowEpoch - baseEpoch: the whole
\* millisecond of the wall clock when the page was built, which is the old
\* page's reading t, its phase within the millisecond, and the time of the
\* reload
LoadClock(t, phase) == FloorMs(t + phase + MinReloadMs * TicksPerMs)

\* what localStorage holds under STORAGE_KEY when it is not a snapshot:
\* getItem throws, the text is not JSON, or the JSON is not an object
Unreadable == [kind |-> "unreadable"]
InvalidJson == [kind |-> "invalid"]
NotAnObject == [kind |-> "number"]

\* the constructor's fields before _loadState
FreshPage == [now |-> 0, events |-> <<>>, takes |-> <<>>, takeIdleMs |-> IdleMs]

\* Array.isArray(state[field]): a property that is not an array is held as
\* an absent one
IsArray(state, field) == field \in DOMAIN state

\* the body of the second try of _loadState for a parsed object: the time
\* base and the settings are set first, then the events, then the takes; a
\* null among the events or the takes throws out of its map and the
\* assignments made before it stay. Every snapshot of the model carries the
\* baseEpoch _saveState wrote.
LoadObject(state, t, phase) ==
    LET p1 == [FreshPage EXCEPT !.now = LoadClock(t, phase)]
        p2 == IF "settings" \in DOMAIN state
              THEN [p1 EXCEPT !.takeIdleMs = state.settings.takeIdleMs] ELSE p1
    IN IF IsArray(state, "events") /\ \E i \in 1..Len(state.events) : state.events[i] = Null
       THEN [page |-> p2, error |-> "TypeError"]
       ELSE LET p3 == IF IsArray(state, "events")
                      THEN [p2 EXCEPT !.events =
                               [i \in 1..Len(state.events) |->
                                   RestoredEvent(state.events[i], state.baseEpoch)]]
                      ELSE p2
            IN IF IsArray(state, "takes") /\ \E i \in 1..Len(state.takes) : state.takes[i] = Null
               THEN [page |-> p3, error |-> "TypeError"]
               ELSE [page |-> IF IsArray(state, "takes")
                              THEN [p3 EXCEPT !.takes = RestoredTakes(state.takes, state.baseEpoch)]
                              ELSE p3,
                     error |-> ""]

\* _loadState() at the old page's clock reading t: the fields it leaves, and
\* the error its try blocks catch
LoadState(item, t, phase) ==
    IF item = Null \/ item = Unreadable THEN [page |-> FreshPage, error |-> ""]
    ELSE IF item = InvalidJson THEN [page |-> FreshPage, error |-> "SyntaxError"]
    ELSE IF item = NotAnObject THEN [page |-> FreshPage, error |-> ""]
    ELSE LoadObject(item, t, phase)

\* the item is a snapshot as _saveState writes it
Intact(item) ==
    /\ item # Null
    /\ DOMAIN item = {"baseEpoch", "settings", "events", "takes"}
    /\ \A i \in 1..Len(item.events) : item.events[i] # Null
    /\ \A i \in 1..Len(item.takes) : item.takes[i] # Null /\ "endAbs" \in DOMAIN item.takes[i]

\* what another writer of STORAGE_KEY can leave in place of the snapshot
\* `state`: nothing readable, or the snapshot with a null among its events
\* or its takes, or with a take that has no end
Corruptions(state) ==
    {Unreadable, InvalidJson, NotAnObject,
     [state EXCEPT !.events = Append(@, Null)],
     [state EXCEPT !.takes = Append(@, Null)],
     [state EXCEPT !.takes = Append(@, [startAbs |-> state.baseEpoch])]}

\* settings.groupByChannel
GroupByChannel == FALSE

(* ------------------------------- encoder ------------------------------- *)

\* PPQ
PPQ == 128

\* DEFAULT_BPM
DEFAULT_BPM == 120

\* Math.round(n / d) for d > 0: the nearest integer, a half rounds up
RoundDiv(n, d) == (2 * n + d) \div (2 * d)

\* clamp(n, min, max)
Clamp(n, min, max) == Max(min, Min(max, n))

\* msToTicks without the floor of one tick
MsToTicks_NoFloor(ms, bpm) == RoundDiv(ms * bpm * PPQ, 60000 * TicksPerMs)

\* msToTicks(ms, bpm): Math.max(1, Math.round((ms / 60000) * (bpm * ppq))),
\* for a time of `ms` clock ticks
MsToTicks(ms, bpm) == Max(1, RoundDiv(ms * bpm * PPQ, 60000 * TicksPerMs))

\* midiNoteToName(n): `${names[n % 12]}${Math.floor(n / 12) - 1}`, held as
\* the place in `names` and the octave
MidiNoteToName(n) == <<n % 12, (n \div 12) - 1>>

\* _t0Global of _buildMidi: the least first startMs of the tracks that hold
\* a note, from track i on; Infinity is held as -1
RECURSIVE T0Global(_, _, _)
T0Global(notesByTrack, i, t0) ==
    IF i > Len(notesByTrack) THEN (IF t0 = -1 THEN 0 ELSE t0)
    ELSE LET notes == notesByTrack[i].val
         IN T0Global(notesByTrack, i + 1,
                     IF notes # <<>> /\ (t0 = -1 \/ notes[1].startMs < t0)
                     THEN notes[1].startMs ELSE t0)

\* the NoteEvent _buildMidi adds for the interval n
NoteEvent(n, t0Global, bpm) ==
    [pitch |-> <<MidiNoteToName(n.note)>>,
     duration |-> MsToTicks(n.endMs - n.startMs, bpm),
     velocity |-> Clamp(RoundDiv(n.vel * 100, 127), 1, 100),
     channel |-> n.ch,
     tick |-> MsToTicks(n.startMs - t0Global, bpm)]

\* a track re-based against its own first note
MidiTrack_OwnBase(entry, t0Global, bpm) ==
    [tempo |-> bpm, timeSignature |-> <<4, 4, 24, 8>>, name |-> entry.key,
     events |-> [j \in 1..Len(entry.val) |->
                    NoteEvent(entry.val[j], entry.val[1].startMs, bpm)]]

\* the Track _buildMidi builds for one entry of notesByTrack
MidiTrack(entry, t0Global, bpm) ==
    [tempo |-> bpm, timeSignature |-> <<4, 4, 24, 8>>, name |-> entry.key,
     events |-> [j \in 1..Len(entry.val) |-> NoteEvent(entry.val[j], t0Global, bpm)]]

\* a _buildMidi that does not look for globalThis.MidiWriter
BuildMidi_Unchecked(notesByTrack, bpm, MidiWriter) ==
    LET t0Global == T0Global(notesByTrack, 1, -1)
    IN [error |-> "",
        tracks |-> [i \in 1..Len(notesByTrack) |->
                       MidiTrack(notesByTrack[i], t0Global, bpm)]]

\* _buildMidi(notesByTrack, bpm): the tracks of the Writer, or the error it
\* throws when globalThis.MidiWriter is not there
BuildMidi(notesByTrack, bpm, MidiWriter) ==
    IF ~MidiWriter
    THEN [error |-> "MidiWriterJS not found. Load it before Catchonika.", tracks |-> <<>>]
    ELSE LET t0Global == T0Global(notesByTrack, 1, -1)
         IN [error |-> "",
             tracks |-> [i \in 1..Len(notesByTrack) |->
                            MidiTrack(notesByTrack[i], t0Global, bpm)]]

(* ------------------------------- export -------------------------------- *)

\* a _saveRange that keeps the filtered array as this._events
SaveRange_FilterInPlace(evs, startMs, endMs) ==
    [events |-> SelectSeq(evs, LAMBDA e : e.t >= startMs /\ e.t <= endMs),
     notesByTrack |-> SaveRangeNotes(evs, startMs, endMs, GroupByChannel)]

\* _saveRange(startMs, endMs): this._events as the call leaves it and the
\* notesByTrack of the file; filter() builds the array that sort() orders
SaveRange(evs, startMs, endMs) ==
    [events |-> evs,
     notesByTrack |-> SaveRangeNotes(evs, startMs, endMs, GroupByChannel)]

(* ------------------------------ actions -------------------------------- *)

\* the fields the constructor has set when it returns, with nothing stored
\* to restore; the GC interval is set
Constructed ==
    /\ now = 0
    /\ events = <<>>
    /\ active = <<>>
    /\ sustain = [c \in Channels |-> FALSE]
    /\ pendingRelease = [c \in Channels |-> <<>>]
    /\ takes = <<>>
    /\ currentTake = Null
    /\ idleTimer = Null
    /\ timeouts = {}
    /\ takeIdleMs = IdleMs
    /\ stored = Null
    /\ exported = <<>>
    /\ midi = <<>>
    /\ thrown = ""
    /\ gcInterval = TRUE
    /\ destroyed = FALSE

\* the recorder at work: the constructor has returned and the MIDI access
\* it asked for has been granted, so that _refreshInputs has set the handler
Init ==
    /\ Constructed
    /\ midiAccess = "granted"
    /\ attached = TRUE

\* the constructor has returned and its request for MIDI access is pending
InitTeardown ==
    /\ Constructed
    /\ midiAccess = "pending"
    /\ attached = FALSE

\* the clock advances between callbacks
Tick ==
    /\ now < MaxTime
    /\ now' = now + 1
    /\ UNCHANGED <<events, active, sustain, pendingRelease>>
    /\ UNCHANGED takeVars
    /\ UNCHANGED pageVars
    /\ UNCHANGED lifeVars

\* input.onmidimessage: _onMIDIMessage(input, message), where ts() - _start
\* reads t
OnMIDIMessageAt(data, t) ==
    /\ now' = t
    /\ UNCHANGED pageVars
    /\ UNCHANGED lifeVars
    /\ IF Len(data) < 1
       THEN UNCHANGED <<events, active, sustain, pendingRelease>> /\ UNCHANGED takeVars
       ELSE LET r == Dispatch(CaptureState(events, active, sustain, pendingRelease),
                              TakeState(currentTake, idleTimer, timeouts), t, data)
            IN /\ events' = r.cs.events
               /\ active' = r.cs.active
               /\ sustain' = r.cs.sustain
               /\ pendingRelease' = r.cs.pending
               /\ currentTake' = r.tk.cur
               /\ idleTimer' = r.tk.timer
               /\ timeouts' = r.tk.timeouts
               /\ UNCHANGED takes

\* a message handled at the current clock reading
OnMIDIMessage(data) == OnMIDIMessageAt(data, now)

\* a message handled one millisecond after the previous callback
OnMIDIMessageLater(data) == OnMIDIMessageAt(data, now + 1)

\* an _endTake that pushes the take and leaves it open
EndTake_KeepOpen(pending) ==
    IF currentTake = Null
    THEN /\ timeouts' = pending
         /\ UNCHANGED <<takes, currentTake, idleTimer>>
    ELSE /\ takes' = Append(takes, [startMs |-> currentTake.startMs,
                                    endMs |-> currentTake.lastActivityMs])
         /\ idleTimer' = Null
         /\ timeouts' = ClearTimeout(pending, idleTimer)
         /\ UNCHANGED currentTake

\* an _endTake that closes the take at the clock reading of the call
EndTake_AtFireTime(pending) ==
    IF currentTake = Null
    THEN /\ timeouts' = pending
         /\ UNCHANGED <<takes, currentTake, idleTimer>>
    ELSE /\ takes' = Append(takes, [startMs |-> currentTake.startMs, endMs |-> now])
         /\ currentTake' = Null
         /\ idleTimer' = Null
         /\ timeouts' = ClearTimeout(pending, idleTimer)

\* _endTake(), entered with `pending` timeouts
EndTake(pending) ==
    IF currentTake = Null
    THEN /\ timeouts' = pending
         /\ UNCHANGED <<takes, currentTake, idleTimer>>
    ELSE /\ takes' = Append(takes, [startMs |-> currentTake.startMs,
                                    endMs |-> currentTake.lastActivityMs])
         /\ currentTake' = Null
         /\ idleTimer' = Null
         /\ timeouts' = ClearTimeout(pending, idleTimer)

\* a pending timeout comes due and runs its callback, _endTake
IdleTimerFire ==
    /\ \E due \in timeouts :
          /\ now >= due
          /\ EndTake(timeouts \ {due})
    /\ UNCHANGED <<now, events, active, sustain, pendingRelease>>
    /\ UNCHANGED pageVars
    /\ UNCHANGED lifeVars

\* a _gc that drops the oldest event when it is older than the cutoff
GcEvents_DropOldest(evs, t) ==
    LET cutoff == t - MaxMs
    IN IF cutoff <= 0 \/ evs = <<>> \/ evs[1].t >= cutoff THEN evs ELSE Tail(evs)

\* this._events after _gc() at the clock reading t
GcEvents(evs, t) ==
    LET cutoff == t - MaxMs
    IN IF cutoff <= 0 THEN evs ELSE SelectSeq(evs, LAMBDA e : e.t >= cutoff)

\* a _gc that forgets the keys whose NoteOn it removes
Gc_PruneActive ==
    /\ events' = GcEvents(events, now)
    /\ active' = [k \in {x \in DOMAIN active : active[x].tOn >= now - MaxMs} |-> active[k]]
    /\ UNCHANGED <<now, sustain, pendingRelease>>
    /\ UNCHANGED takeVars
    /\ UNCHANGED pageVars
    /\ UNCHANGED lifeVars

\* a _gc that keeps only the events later than the cutoff
Gc_Strict ==
    LET cutoff == now - MaxMs IN
    /\ events' = IF cutoff <= 0 THEN events
                 ELSE SelectSeq(events, LAMBDA e : e.t > cutoff)
    /\ UNCHANGED <<now, active, sustain, pendingRelease>>
    /\ UNCHANGED takeVars
    /\ UNCHANGED pageVars
    /\ UNCHANGED lifeVars

\* the setInterval callback: _gc()
Gc ==
    /\ events' = GcEvents(events, now)
    /\ UNCHANGED <<now, active, sustain, pendingRelease>>
    /\ UNCHANGED takeVars
    /\ UNCHANGED pageVars
    /\ UNCHANGED lifeVars

\* a clear() that forgets the idle timer without clearing its timeout
Clear_KeepTimer ==
    /\ events' = <<>>
    /\ active' = <<>>
    /\ sustain' = [c \in Channels |-> FALSE]
    /\ pendingRelease' = [c \in Channels |-> <<>>]
    /\ idleTimer' = Null
    /\ currentTake' = Null
    /\ takes' = <<>>
    /\ stored' = Null
    /\ UNCHANGED <<now, takeIdleMs, timeouts>>
    /\ UNCHANGED fileVars
    /\ UNCHANGED lifeVars

\* a clear() that leaves the pending keys
Clear_KeepPending ==
    /\ events' = <<>>
    /\ active' = <<>>
    /\ sustain' = [c \in Channels |-> FALSE]
    /\ timeouts' = ClearTimeout(timeouts, idleTimer)
    /\ idleTimer' = Null
    /\ currentTake' = Null
    /\ takes' = <<>>
    /\ stored' = Null
    /\ UNCHANGED <<now, takeIdleMs, pendingRelease>>
    /\ UNCHANGED fileVars
    /\ UNCHANGED lifeVars

\* clear()
Clear ==
    /\ events' = <<>>
    /\ active' = <<>>
    /\ sustain' = [c \in Channels |-> FALSE]
    /\ pendingRelease' = [c \in Channels |-> <<>>]
    /\ timeouts' = ClearTimeout(timeouts, idleTimer)
    /\ idleTimer' = Null
    /\ currentTake' = Null
    /\ takes' = <<>>
    /\ stored' = Null
    /\ UNCHANGED <<now, takeIdleMs>>
    /\ UNCHANGED fileVars
    /\ UNCHANGED lifeVars

\* a change handler that re-arms the idle timer whether a Take is open or not
SettingsChange_AlwaysArms(v) ==
    /\ IF v > 0
       THEN /\ takeIdleMs' = v
            /\ LET tk == ResetIdleTimer(TakeState(currentTake, idleTimer, timeouts), now, v)
               IN idleTimer' = tk.timer /\ timeouts' = tk.timeouts
       ELSE UNCHANGED <<takeIdleMs, idleTimer, timeouts>>
    /\ UNCHANGED <<now, events, active, sustain, pendingRelease, takes, currentTake,
                   stored>>
    /\ UNCHANGED fileVars
    /\ UNCHANGED lifeVars

\* the change handler of the "Idle s" input, whose value times 1000 is v
SettingsChange(v) ==
    /\ IF v > 0
       THEN /\ takeIdleMs' = v
            /\ IF currentTake # Null
               THEN LET tk == ResetIdleTimer(TakeState(currentTake, idleTimer, timeouts), now, v)
                    IN idleTimer' = tk.timer /\ timeouts' = tk.timeouts
               ELSE UNCHANGED <<idleTimer, timeouts>>
       ELSE UNCHANGED <<takeIdleMs, idleTimer, timeouts>>
    /\ UNCHANGED <<now, events, active, sustain, pendingRelease, takes, currentTake,
                   stored>>
    /\ UNCHANGED fileVars
    /\ UNCHANGED lifeVars

\* _saveState(), from the debounce timer or from beforeunload; setItem
\* succeeds, or fails for the whole state and succeeds for the trimmed one,
\* or fails twice
\* a _saveState that writes the open Take after the closed ones
SaveState_WithOpenTake ==
    /\ \E outcome \in {"stored", "trimmed", "failed"} :
          LET all == IF currentTake = Null THEN takes
                     ELSE Append(takes, [startMs |-> currentTake.startMs])
              state == StateToStore(events, all, now, takeIdleMs)
          IN stored' = CASE outcome = "stored" -> state
                         [] outcome = "trimmed" -> Trimmed(state)
                         [] OTHER -> stored
    /\ UNCHANGED <<now, events, active, sustain, pendingRelease, takeIdleMs>>
    /\ UNCHANGED takeVars
    /\ UNCHANGED fileVars
    /\ UNCHANGED lifeVars

\* _saveState() with the outcome of its two setItem calls: the first
\* succeeds, the first throws and the second succeeds, or both throw
SaveStateWith(outcome) ==
    /\ LET state == StateToStore(events, takes, now, takeIdleMs)
       IN stored' = CASE outcome = "stored" -> state
                      [] outcome = "trimmed" -> Trimmed(state)
                      [] OTHER -> stored
    /\ UNCHANGED <<now, events, active, sustain, pendingRelease, takeIdleMs>>
    /\ UNCHANGED takeVars
    /\ UNCHANGED fileVars
    /\ UNCHANGED lifeVars

SaveState == \E outcome \in {"stored", "trimmed", "failed"} : SaveStateWith(outcome)

\* the page is loaded again and the constructor runs: _loadState restores
\* events, takes and settings from the stored state if there is one; the
\* timers of the old page are gone
Reload ==
    /\ \E phase \in 0..(TicksPerMs - 1) :
          LET loaded == LoadState(stored, now, phase)
          IN /\ now' = loaded.page.now
             /\ events' = loaded.page.events
             /\ takes' = loaded.page.takes
             /\ takeIdleMs' = loaded.page.takeIdleMs
    /\ active' = <<>>
    /\ sustain' = [c \in Channels |-> FALSE]
    /\ pendingRelease' = [c \in Channels |-> <<>>]
    /\ currentTake' = Null
    /\ idleTimer' = Null
    /\ timeouts' = {}
    /\ UNCHANGED stored
    /\ UNCHANGED fileVars
    /\ UNCHANGED lifeVars

\* another writer of STORAGE_KEY (another page of the origin, an older
\* version of the script) replaces the snapshot
StorageChanged ==
    /\ Intact(stored)
    /\ stored' \in Corruptions(stored)
    /\ UNCHANGED <<now, events, active, sustain, pendingRelease, takeIdleMs>>
    /\ UNCHANGED takeVars
    /\ UNCHANGED fileVars
    /\ UNCHANGED lifeVars

\* saveTake(index, { bpm }) with globalThis.MidiWriter loaded or not: no
\* file without the take, and none when _buildMidi throws
SaveTakeWith(index, bpm, MidiWriter) ==
    /\ IF index + 1 \in 1..Len(takes)
       THEN LET r == SaveRange(events, takes[index + 1].startMs, takes[index + 1].endMs)
                built == BuildMidi(r.notesByTrack, bpm, MidiWriter)
            IN /\ events' = r.events
               /\ IF built.error = ""
                  THEN /\ exported' = <<r.notesByTrack>>
                       /\ midi' = <<built.tracks>>
                       /\ UNCHANGED thrown
                  ELSE /\ thrown' = built.error
                       /\ UNCHANGED <<exported, midi>>
       ELSE UNCHANGED <<events, exported, midi, thrown>>
    /\ UNCHANGED <<now, active, sustain, pendingRelease, takeIdleMs, stored>>
    /\ UNCHANGED takeVars
    /\ UNCHANGED lifeVars

\* saveTake(index): the click on a take of the list, at the default tempo
SaveTake(index) == \E MidiWriter \in BOOLEAN : SaveTakeWith(index, DEFAULT_BPM, MidiWriter)

Next ==
    \/ Tick
    \/ \E data \in Msgs : Len(events) < MaxEvents /\ OnMIDIMessage(data)
    \/ IdleTimerFire
    \/ Gc
    \/ Clear

\* the whole capture machine: messages, the idle timer, the GC sweep, clear()
Spec == Init /\ [][Next]_vars

NextTakes ==
    \/ Tick
    \/ \E data \in TakeMsgs : Len(events) < MaxTakeEvents /\ OnMIDIMessage(data)
    \/ IdleTimerFire
    \/ \E v \in IdleInputs : SettingsChange(v)

\* the take machine: a message of every kind, the idle timer, the idle setting
SpecTakes == Init /\ [][NextTakes]_vars

\* the clock advances while no message arrives, as far as the idle timeout
\* of a Take opened at MaxTime
Silence ==
    /\ now < MaxTime + takeIdleMs
    /\ now' = now + 1
    /\ UNCHANGED <<events, active, sustain, pendingRelease>>
    /\ UNCHANGED takeVars
    /\ UNCHANGED pageVars
    /\ UNCHANGED lifeVars

NextSilence ==
    \/ Silence
    \/ \E data \in TakeMsgs : events = <<>> /\ now <= MaxTime /\ OnMIDIMessage(data)
    \/ IdleTimerFire
    \/ \E v \in IdleInputs : events = <<>> /\ SettingsChange(v)

\* one message and silence after it: the clock keeps running and a timeout
\* that is due runs
SpecSilence ==
    Init /\ [][NextSilence]_vars /\ WF_vars(Silence) /\ WF_vars(IdleTimerFire)

NextOps ==
    \/ Tick
    \/ \E data \in PageMsgs : Len(events) < MaxOpEvents /\ OnMIDIMessage(data)
    \/ IdleTimerFire
    \/ Gc
    \/ Clear
    \/ \E v \in IdleInputs : SettingsChange(v)
    \/ SaveState

\* the operations of one page: messages, the idle timer, the GC sweep,
\* clear(), the idle setting, the save of the state
SpecOps == Init /\ [][NextOps]_vars

NextExport ==
    \/ Tick
    \/ \E data \in PageMsgs : Len(events) < MaxExportEvents /\ OnMIDIMessage(data)
    \/ IdleTimerFire
    \/ Gc
    \/ Clear
    \/ \E v \in IdleInputs : SettingsChange(v)
    \/ \E index \in 0..Len(takes) : SaveTake(index)

\* capture with the export of a take in between
SpecExport == Init /\ [][NextExport]_vars

NextPage ==
    \/ Tick
    \/ \E data \in KeyMsgsOfPage : Len(events) < MaxPageEvents /\ OnMIDIMessage(data)
    \/ IdleTimerFire
    \/ Gc
    \/ SaveState
    \/ now <= MaxTime /\ Reload

\* capture, the stored state and the reload of the page; after a reload the
\* clock stands at the time of the load
SpecPage == Init /\ [][NextPage]_vars

NextChannels ==
    \/ Tick
    \/ \E data \in ChannelMsgs : Len(events) < MaxChannelEvents /\ OnMIDIMessage(data)

\* notes and pedals of two channels, captured at any clock readings
SpecChannels == Init /\ [][NextChannels]_vars

NextKeys ==
    \/ Tick
    \/ \E data \in KeyMsgs : Len(events) < MaxKeyEvents /\ OnMIDIMessage(data)

\* two keys of one channel without the pedal, captured at any clock readings
SpecKeys == Init /\ [][NextKeys]_vars

NextSustain ==
    \/ Tick
    \/ \E data \in SustainMsgs : Len(events) < MaxSustainEvents /\ OnMIDIMessage(data)

\* one key and the pedal of its channel, captured at any clock readings
SpecSustain == Init /\ [][NextSustain]_vars

NextPedal ==
    \E data \in NoteMsgs : Len(events) < MaxPedalEvents /\ OnMIDIMessageLater(data)

\* notes and pedal of one channel, each message one millisecond after the last
SpecPedal == Init /\ [][NextPedal]_vars

NextTwoChannels ==
    \E data \in TwoChannelMsgs :
        Len(events) < MaxTwoChannelEvents /\ OnMIDIMessageLater(data)

\* one key and the pedal of each of two channels, each message one
\* millisecond after the last
SpecTwoChannels == Init /\ [][NextTwoChannels]_vars

\* the promise of requestMIDIAccess resolves: _initMIDI sets this._midi and
\* onstatechange, and _refreshInputs sets onmidimessage of the input
MidiAccessGranted ==
    /\ midiAccess = "pending"
    /\ midiAccess' = "granted"
    /\ attached' = TRUE
    /\ UNCHANGED <<now, events, active, sustain, pendingRelease, gcInterval, destroyed>>
    /\ UNCHANGED takeVars
    /\ UNCHANGED pageVars

\* the promise of requestMIDIAccess rejects: _initMIDI reports it
MidiAccessDenied ==
    /\ midiAccess = "pending"
    /\ midiAccess' = "denied"
    /\ UNCHANGED <<now, events, active, sustain, pendingRelease, attached, gcInterval,
                   destroyed>>
    /\ UNCHANGED takeVars
    /\ UNCHANGED pageVars

\* destroy(): the handlers are taken off when this._midi is set, the idle
\* timer and the GC interval are cleared; _currentTake stays
Destroy ==
    /\ IF midiAccess = "granted"
       THEN midiAccess' = "released" /\ attached' = FALSE
       ELSE UNCHANGED <<midiAccess, attached>>
    /\ timeouts' = ClearTimeout(timeouts, idleTimer)
    /\ idleTimer' = Null
    /\ gcInterval' = FALSE
    /\ destroyed' = TRUE
    /\ UNCHANGED <<now, events, active, sustain, pendingRelease, takes, currentTake>>
    /\ UNCHANGED pageVars

NextTeardown ==
    \/ Tick
    \/ MidiAccessGranted
    \/ MidiAccessDenied
    \/ \E data \in KeyMsgsOfPage :
          attached /\ Len(events) < MaxOpEvents /\ OnMIDIMessage(data)
    \/ IdleTimerFire
    \/ gcInterval /\ Gc
    \/ Destroy

\* the instance from its constructor to destroy() and after: the request for
\* MIDI access settles at any moment, messages arrive while the handler is
\* set, the timers fire while they are set
SpecTeardown == InitTeardown /\ [][NextTeardown]_vars

NextIdle ==
    \/ Tick
    \/ \E data \in KeyMsgsOfPage : Len(events) < MaxIdleEvents /\ OnMIDIMessage(data)
    \/ IdleTimerFire
    \/ \E v \in IdleInputs : SettingsChange(v)
    \/ Gc
    \/ Clear
    \/ SaveStateWith("stored")
    \/ now <= MaxTime /\ Reload

\* everything that touches the idle timer or the open Take while the page
\* lives: messages, the timer, the idle setting, GC, clear(), and the restore
\* of the saved state by a reload
SpecIdle == Init /\ [][NextIdle]_vars

NextShort ==
    \/ Tick
    \/ \E data \in ShortMsgs : Len(events) < MaxShortEvents /\ OnMIDIMessage(data)
    \/ IdleTimerFire

\* capture with empty and truncated messages
SpecShort == Init /\ [][NextShort]_vars

NextRestore ==
    \/ Tick
    \/ \E data \in KeyMsgsOfPage : Len(events) < MaxRestoreEvents /\ OnMIDIMessage(data)
    \/ IdleTimerFire
    \/ \E v \in IdleInputs : SettingsChange(v)
    \/ SaveState
    \/ StorageChanged
    \/ now <= MaxTime /\ Reload

\* pages that find a snapshot, a damaged snapshot or nothing readable in
\* the storage
SpecRestore == Init /\ [][NextRestore]_vars

(* --------------------------- encoder alone ----------------------------- *)

\* the tempos of an export
Bpms == {DEFAULT_BPM, MaxBpm}

\* the intervals pushNote can push: longer than zero
EncNotes ==
    {n \in [ch : Channels, note : {60}, startMs : 0..MaxEncTime, endMs : 0..MaxEncTime,
            vel : {100}] : n.endMs > n.startMs}

\* two intervals of one key never overlap
Disjoint(notes) ==
    \A i, j \in 1..Len(notes) :
        (i < j /\ notes[i].ch = notes[j].ch /\ notes[i].note = notes[j].note)
            => (notes[i].endMs <= notes[j].startMs \/ notes[j].endMs <= notes[i].startMs)

\* the lists of intervals a reconstruction can give
EncInputs ==
    {notes \in UNION {[1..n -> EncNotes] : n \in 0..MaxEncNotes} : Disjoint(notes)}

\* the state after an export of the intervals `notes` at the default tempo
InitEncoder ==
    \E notes \in EncInputs, groupByChannel \in BOOLEAN :
        /\ now = MaxEncTime
        /\ events = <<>>
        /\ active = <<>>
        /\ sustain = [c \in Channels |-> FALSE]
        /\ pendingRelease = [c \in Channels |-> {}]
        /\ takes = <<>>
        /\ currentTake = Null
        /\ idleTimer = Null
        /\ timeouts = {}
        /\ takeIdleMs = IdleMs
        /\ stored = Null
        /\ exported = <<ByTrack(notes, groupByChannel)>>
        /\ midi = <<BuildMidi(exported[1], DEFAULT_BPM, TRUE).tracks>>
        /\ thrown = ""
        /\ midiAccess = "granted"
        /\ attached = TRUE
        /\ gcInterval = TRUE
        /\ destroyed = FALSE

\* _buildMidi(notesByTrack, bpm) of the same intervals at another tempo
BuildAgain(bpm) ==
    /\ midi' = <<BuildMidi(exported[1], bpm, TRUE).tracks>>
    /\ UNCHANGED <<now, events, active, sustain, pendingRelease, takeIdleMs, stored,
                   exported, thrown>>
    /\ UNCHANGED takeVars
    /\ UNCHANGED lifeVars

NextEncoder == \E bpm \in Bpms : BuildAgain(bpm)

\* the encoder on every list of intervals
SpecEncoder == InitEncoder /\ [][NextEncoder]_vars

(* ------------------------------ claims --------------------------------- *)

\* a note termination: a note-off, or a note-on with velocity 0
IsTermination(data) ==
    \/ TypeOf(data[1]) = 128
    \/ TypeOf(data[1]) = 144 /\ data[3] = 0

\* a sustain-controller message
IsSustain(data) == TypeOf(data[1]) = 176 /\ data[2] = 64

\* the events a step appends to the buffer
Appended == SubSeq(events', Len(events) + 1, Len(events'))

\* the step only appends to the buffer
OnlyAppends == Len(events') >= Len(events) /\ SubSeq(events', 1, Len(events)) = events

\* how many entries of seq satisfy Test
CountIn(seq, Test(_)) == Cardinality({i \in 1..Len(seq) : Test(seq[i])})

LastEvent == events[Len(events)]

\* C1: a termination of an active key while its channel's pedal is down
\* appends exactly one NoteOffDeferred at the time of the message, adds the
\* key to the channel's pending keys and leaves the ActiveNote map as it was.
C1_DeferredTermination ==
    [][\A data \in ChannelMsgs :
         LET ch == ChannelOf(data[1])
             key == KeyOf(ch, data[2])
         IN (/\ IsTermination(data)
             /\ key \in DOMAIN active
             /\ sustain[ch]
             /\ OnMIDIMessage(data))
            => /\ events' = Append(events, NoteOffDeferredEvent(now, ch, data[2]))
               /\ Elems(pendingRelease'[ch]) = Elems(pendingRelease[ch]) \cup {key}
               /\ active' = active
               /\ key \in DOMAIN active']_vars

C1_Witness ==
    /\ Len(events) > 0
    /\ LastEvent.type = "noteoff_deferred"
    /\ LastEvent.t = now
    /\ KeyOf(LastEvent.ch, LastEvent.note) \in Elems(pendingRelease[LastEvent.ch])
    /\ KeyOf(LastEvent.ch, LastEvent.note) \in DOMAIN active
    /\ sustain[LastEvent.ch]

\* C2: a pedal message below 64 on a channel whose pedal is down appends, for
\* every key pending on that channel, exactly one NoteOff, stamped with the
\* time of the pedal message; the key's ActiveNote is removed, and afterwards
\* the channel has no pending key.
C2_PedalUpFlush ==
    [][\A data \in NoteMsgs :
         LET ch == ChannelOf(data[1])
             t == now + 1
             IsNoteOff(e) == e.type = "noteoff"
         IN (/\ IsSustain(data)
             /\ data[3] < 64
             /\ sustain[ch]
             /\ OnMIDIMessageLater(data))
            => /\ OnlyAppends
               /\ \A key \in Elems(pendingRelease[ch]) :
                     LET IsOffOfKey(e) == e.type = "noteoff" /\ e.ch = ch /\ e.note = key[2]
                         IsOffAtT(e) == e = NoteOffEvent(t, ch, key[2])
                     IN /\ CountIn(Appended, IsOffOfKey) = 1
                        /\ CountIn(Appended, IsOffAtT) = 1
                        /\ key \notin DOMAIN active'
               /\ CountIn(Appended, IsNoteOff) = Len(pendingRelease[ch])
               /\ pendingRelease'[ch] = <<>>]_vars

\* two keys released under the pedal at different times were flushed by one
\* pedal-up, later than both releases
C2_Witness ==
    /\ Len(events) >= 5
    /\ pendingRelease[1] = <<>>
    /\ ~sustain[1]
    /\ LET n == Len(events) IN
       /\ events[n - 2].type = "cc" /\ events[n - 2].cc = 64 /\ events[n - 2].val < 64
       /\ events[n - 1].type = "noteoff" /\ events[n - 1].t = events[n - 2].t
       /\ events[n].type = "noteoff" /\ events[n].t = events[n - 2].t
       /\ events[n - 1].note # events[n].note
       /\ KeyOf(1, events[n - 1].note) \notin DOMAIN active
       /\ KeyOf(1, events[n].note) \notin DOMAIN active
       /\ \E i, j \in 1..(n - 3) :
             /\ events[i] = NoteOffDeferredEvent(events[i].t, 1, events[n - 1].note)
             /\ events[j] = NoteOffDeferredEvent(events[j].t, 1, events[n].note)
             /\ events[i].t < events[j].t
             /\ events[j].t < events[n].t

\* C3: a termination of an active key while its channel's pedal is up appends
\* exactly one NoteOff at the time of the message and removes the key's
\* ActiveNote; no channel's pending keys change.
C3_ImmediateTermination ==
    [][\A data \in ChannelMsgs :
         LET ch == ChannelOf(data[1])
             key == KeyOf(ch, data[2])
         IN (/\ IsTermination(data)
             /\ key \in DOMAIN active
             /\ ~sustain[ch]
             /\ OnMIDIMessage(data))
            => /\ events' = Append(events, NoteOffEvent(now, ch, data[2]))
               /\ key \notin DOMAIN active'
               /\ \A k \in (DOMAIN active) \ {key} : k \in DOMAIN active' /\ active'[k] = active[k]
               /\ DOMAIN active' \subseteq DOMAIN active
               /\ pendingRelease' = pendingRelease]_vars

\* a note was struck and released with the pedal up: its NoteOff is the last
\* event and the key is no longer active
C3_Witness ==
    /\ Len(events) > 1
    /\ LastEvent.type = "noteoff"
    /\ ~sustain[LastEvent.ch]
    /\ KeyOf(LastEvent.ch, LastEvent.note) \notin DOMAIN active
    /\ events[Len(events) - 1].type = "noteon"
    /\ events[Len(events) - 1].ch = LastEvent.ch
    /\ events[Len(events) - 1].note = LastEvent.note

\* C4: a termination of a key that has no ActiveNote appends exactly one
\* NoteOff at the time of the message and changes neither the ActiveNote map
\* nor any pedal flag nor any pending keys, whether the pedal is down or up.
C4_OrphanTermination ==
    [][\A data \in ChannelMsgs :
         LET ch == ChannelOf(data[1])
             key == KeyOf(ch, data[2])
         IN (/\ IsTermination(data)
             /\ key \notin DOMAIN active
             /\ OnMIDIMessage(data))
            => /\ events' = Append(events, NoteOffEvent(now, ch, data[2]))
               /\ UNCHANGED <<active, sustain, pendingRelease>>]_vars

\* an orphan NoteOff recorded while the channel's pedal is down
C4_Witness ==
    /\ Len(events) > 0
    /\ LastEvent.type = "noteoff"
    /\ sustain[LastEvent.ch]
    /\ pendingRelease[LastEvent.ch] = <<>>
    /\ \A i \in 1..Len(events) : events[i].type # "noteon"

\* C5: in every reachable state a channel whose pedal flag is up has no
\* pending key.
C5_PendingOnlyWhileDown ==
    \A c \in Channels : ~SustainDown(sustain, c) => pendingRelease[c] = <<>>

\* a pedal-up has flushed a pending key: the channel's pedal is up again and
\* the buffer holds the deferred release and the NoteOff of the flush
C5_Witness ==
    \E c \in Channels :
        /\ ~sustain[c]
        /\ pendingRelease[c] = <<>>
        /\ \E i, j \in 1..Len(events) :
              /\ i < j
              /\ events[i].type = "noteoff_deferred" /\ events[i].ch = c
              /\ events[j].type = "cc" /\ events[j].ch = c /\ events[j].val < 64

(* ----------------------- claims of reconstruction ---------------------- *)

Times == 0..MaxTime

IsNoteOn(e) == e.type = "noteon"

IsOff(e) == e.type = "noteoff" \/ e.type = "noteoff_deferred"

IsPedalDown(e, ch) == e.type = "cc" /\ e.cc = 64 /\ e.ch = ch /\ e.val >= 64

IsPedalUp(e, ch) == e.type = "cc" /\ e.cc = 64 /\ e.ch = ch /\ e.val < 64

HasKey(e, ch, note) == e.ch = ch /\ e.note = note

\* the windows that hold every event of the buffer and end with its last
\* event or one millisecond later
FullWindows ==
    IF events = <<>> THEN {}
    ELSE (0..events[1].t) \X (events[Len(events)].t..(events[Len(events)].t + 1))

\* the intervals _saveRange reconstructs from the buffer for a window, in the
\* order _reconstructNotes pushes them
NotesOf(w) == ReplayNotes(RangeEvents(events, w[1], w[2]), w[1], w[2])

\* the intervals of a key that start at a given time
IntervalsAt(notes, ch, note, startMs) ==
    {i \in 1..Len(notes) :
        notes[i].ch = ch /\ notes[i].note = note /\ notes[i].startMs = startMs}

\* events[o] is a NoteOn, events[r] the first termination of its key after
\* it, and events[u] the first pedal-up of its channel after that
SustainedNote(o, r, u) ==
    /\ o < r /\ r < u
    /\ IsNoteOn(events[o])
    /\ IsOff(events[r]) /\ HasKey(events[r], events[o].ch, events[o].note)
    /\ \A j \in (o + 1)..(r - 1) :
          ~(IsOff(events[j]) /\ HasKey(events[j], events[o].ch, events[o].note))
    /\ IsPedalUp(events[u], events[o].ch)
    /\ \A j \in (r + 1)..(u - 1) : ~IsPedalUp(events[j], events[o].ch)

\* the pedal of the channel is down when events[r] arrives: the last pedal
\* message before it is a pedal-down
PedalHeldAt(r, ch) ==
    \E d \in 1..(r - 1) :
        /\ IsPedalDown(events[d], ch)
        /\ \A j \in (d + 1)..(r - 1) : ~IsPedalUp(events[j], ch)

\* the key of events[o] is not struck again before events[b]
NotStruckAgain(o, b) ==
    \A j \in (o + 1)..(b - 1) :
        ~(IsNoteOn(events[j]) /\ HasKey(events[j], events[o].ch, events[o].note))

\* the reconstruction holds exactly one interval of the note struck at
\* events[o], and it ends at the time of events[u]
EndsAtPedalUp(w, o, u) ==
    LET notes == NotesOf(w)
        at == IntervalsAt(notes, events[o].ch, events[o].note, events[o].t)
    IN /\ Cardinality(at) = 1
       /\ \A i \in at : notes[i].endMs = events[u].t /\ notes[i].vel = events[o].vel

\* C6: whenever a note's termination arrives while the pedal of its channel
\* is down and a pedal-up follows it, the reconstruction over the full range
\* holds the note's interval, ending at the pedal-up time. The claim is taken
\* at its narrowest: the pedal-down that precedes the termination is still
\* in force when it arrives, the termination is the first message of the key
\* after the NoteOn, and the pedal-up is later than the onset.
C6_SustainInvariant ==
    \A o, r, u \in 1..Len(events) :
        (/\ SustainedNote(o, r, u)
         /\ PedalHeldAt(r, events[o].ch)
         /\ NotStruckAgain(o, r)
         /\ events[o].t < events[u].t)
        => \A w \in FullWindows : EndsAtPedalUp(w, o, u)

\* what reconstruction does keep of C6: the same, for a key that is not
\* struck again before the pedal-up
C6_SustainedUnlessStruckAgain ==
    \A o, r, u \in 1..Len(events) :
        (/\ SustainedNote(o, r, u)
         /\ PedalHeldAt(r, events[o].ch)
         /\ NotStruckAgain(o, u)
         /\ events[o].t < events[u].t)
        => \A w \in FullWindows : EndsAtPedalUp(w, o, u)

\* a note struck, released under the pedal, and ended by a later pedal-up:
\* onset, release and pedal-up at three different times
C6_Witness ==
    \E o, r, u \in 1..Len(events) :
        /\ SustainedNote(o, r, u)
        /\ PedalHeldAt(r, events[o].ch)
        /\ NotStruckAgain(o, u)
        /\ events[r].type = "noteoff_deferred"
        /\ events[o].t < events[r].t
        /\ events[r].t < events[u].t
        /\ \A w \in FullWindows : EndsAtPedalUp(w, o, u)
        /\ FullWindows # {}

\* the indices of the buffer's NoteOn events
NoteOns == {i \in 1..Len(events) : IsNoteOn(events[i])}

\* the keys the buffer has a note event of
KeysOf == {KeyOf(events[i].ch, events[i].note) : i \in 1..Len(events)}

OfKey(i, key) == KeyOf(events[i].ch, events[i].note) = key

\* how many NoteOn / NoteOff events of a key the first n events hold
CountOn(key, n) == Cardinality({i \in 1..n : IsNoteOn(events[i]) /\ OfKey(i, key)})

CountOff(key, n) == Cardinality({i \in 1..n : events[i].type = "noteoff" /\ OfKey(i, key)})

\* the buffer holds NoteOn and NoteOff events only
OnlyNotes == \A i \in 1..Len(events) : events[i].type \in {"noteon", "noteoff"}

\* the buffer is an interleaving of NoteOn/NoteOff pairs: of every key, no
\* prefix holds more NoteOffs than NoteOns, and the whole holds as many
PairsInterleaved ==
    /\ events # <<>>
    /\ OnlyNotes
    /\ \A key \in KeysOf :
          /\ \A n \in 1..Len(events) : CountOff(key, n) <= CountOn(key, n)
          /\ CountOff(key, Len(events)) = CountOn(key, Len(events))

\* the pairs of one key follow each other: no key is struck while it is down
PairsAlternate ==
    /\ PairsInterleaved
    /\ \A key \in KeysOf : \A n \in 1..Len(events) : CountOn(key, n) <= CountOff(key, n) + 1

\* every NoteOff is later than the NoteOns of its key that precede it: no
\* pair spans zero time, whichever NoteOff is matched with whichever NoteOn
OffsLater ==
    \A i, j \in 1..Len(events) :
        (/\ i < j
         /\ IsNoteOn(events[i])
         /\ events[j].type = "noteoff"
         /\ OfKey(j, KeyOf(events[i].ch, events[i].note)))
        => events[i].t < events[j].t

\* the NoteOff that ends the NoteOn events[o] when the pairs alternate: the
\* next event of its key
MatchOff(o) ==
    CHOOSE r \in (o + 1)..Len(events) :
        /\ OfKey(r, KeyOf(events[o].ch, events[o].note))
        /\ \A j \in (o + 1)..(r - 1) : ~OfKey(j, KeyOf(events[o].ch, events[o].note))

\* C7: for any interleaving of NoteOn/NoteOff pairs with no sustain activity,
\* reconstruction over the full range yields exactly one interval per NoteOn.
\* The claim is taken at its narrowest: only the count is asked for, which
\* does not depend on which NoteOff matches which NoteOn, and every NoteOff is
\* later than the NoteOns before it, so that no pair spans zero time.
C7_OneIntervalPerNoteOn ==
    (PairsInterleaved /\ OffsLater)
    => \A w \in FullWindows : Len(NotesOf(w)) = Cardinality(NoteOns)

\* what reconstruction does keep of C7: when no key is struck while it is
\* down, every NoteOn whose NoteOff is later has its interval, from the one to
\* the other, and there are no other intervals
C7_OneIntervalPerPair ==
    PairsAlternate
    => \A w \in FullWindows :
          LET notes == NotesOf(w)
              kept == {o \in NoteOns : events[MatchOff(o)].t > events[o].t}
          IN /\ Len(notes) = Cardinality(kept)
             /\ \A o \in kept :
                   \E i \in 1..Len(notes) :
                       notes[i] = [ch |-> events[o].ch, note |-> events[o].note,
                                   startMs |-> events[o].t,
                                   endMs |-> events[MatchOff(o)].t,
                                   vel |-> events[o].vel]

\* two notes of different keys that overlap in time, each with its interval
C7_Witness ==
    /\ PairsAlternate
    /\ OffsLater
    /\ \E o1, o2 \in NoteOns :
          /\ o1 < o2 /\ o2 < MatchOff(o1)
          /\ events[o1].note # events[o2].note
          /\ events[o1].t < events[o2].t
    /\ \A w \in FullWindows : Len(NotesOf(w)) = 2
    /\ FullWindows # {}

\* the windows _saveRange may be asked for
Windows == {w \in Times \X Times : w[1] <= w[2]}

\* the events _saveRange replays for a window
Slice(w) == RangeEvents(events, w[1], w[2])

\* the local state of _reconstructNotes after the first n events of a slice
LocalState(w, n) == Replay(ReplayInit, SubSeq(Slice(w), 1, n), 1, w[1], w[2])

\* the local state at the end of replay
LocalEnd(w) == LocalState(w, Len(Slice(w)))

\* the interval of the open entry op, closed at windowEnd
TruncatedInterval(w, op) ==
    [ch |-> ChOfKey(op.key), note |-> NoteOfKey(op.key),
     startMs |-> Max(w[1], op.val.tOn), endMs |-> w[2], vel |-> op.val.vel]

\* how often a sequence holds a value
Occurrences(seq, x) == Cardinality({i \in 1..Len(seq) : seq[i] = x})

\* C8 as stated: at the end of replay every note still open in the local
\* ActiveNote map is emitted as an interval that ends exactly at windowEnd.
C8_Truncation_Original ==
    \A w \in Windows : \A ls \in {LocalEnd(w)} :
        \A notes \in {Truncate(ls.notes, ls.active, 1, w[1], w[2])} :
            \A i \in 1..Len(ls.active) :
                Occurrences(notes, TruncatedInterval(w, ls.active[i])) = 1

\* C8 amended: at the end of replay every note still open whose onset is
\* earlier than windowEnd is emitted as exactly one interval, from its onset
\* to windowEnd; an open note whose onset is at windowEnd is emitted as
\* none; the intervals of the closed notes stay as they are.
C8_Truncation ==
    \A w \in Windows : \A ls \in {LocalEnd(w)} :
        \A notes \in {Truncate(ls.notes, ls.active, 1, w[1], w[2])} :
            LET open == ls.active
                early == {i \in 1..Len(open) : open[i].val.tOn < w[2]}
            IN /\ \A i \in early : Occurrences(notes, TruncatedInterval(w, open[i])) = 1
               /\ Len(notes) = Len(ls.notes) + Cardinality(early)
               /\ SubSeq(notes, 1, Len(ls.notes)) = ls.notes

\* a note released under a pedal that stays down is open at the end of
\* replay and is closed at a windowEnd later than its release
C8_Witness ==
    \E w \in Windows :
        LET open == LocalEnd(w).active
            slice == Slice(w)
        IN \E i \in 1..Len(open), r \in 1..Len(slice) :
              /\ slice[r].type = "noteoff_deferred"
              /\ KeyOf(slice[r].ch, slice[r].note) = open[i].key
              /\ open[i].val.tOn < slice[r].t
              /\ slice[r].t < w[2]
              /\ LocalEnd(w).sustain[slice[r].ch]
              /\ Occurrences(NotesOf(w), TruncatedInterval(w, open[i])) = 1

\* the local states of _reconstructNotes before each event of a slice and
\* after the last: states[n] is the state the n-th event meets
RECURSIVE LocalStates(_, _, _)
LocalStates(states, slice, w) ==
    IF Len(states) > Len(slice) THEN states
    ELSE LocalStates(Append(states, ReplayEvent(states[Len(states)], slice[Len(states)],
                                                w[1], w[2])), slice, w)

\* C9: in reconstruction a NoteOff or NoteOffDeferred event of a key with no
\* locally open note changes no local state, so produces no interval, and a
\* slice that holds terminations only yields no interval.
C9_OrphanInReplay ==
    \A w \in Windows : \A slice \in {Slice(w)} :
        \A states \in {LocalStates(<<ReplayInit>>, slice, w)} :
            /\ \A n \in 1..Len(slice) :
                  (/\ IsOff(slice[n])
                   /\ ~EntryHas(states[n].active, KeyOf(slice[n].ch, slice[n].note)))
                  => states[n + 1] = states[n]
            /\ (\A n \in 1..Len(slice) : IsOff(slice[n]))
               => \A ls \in {states[Len(slice) + 1]} :
                     Truncate(ls.notes, ls.active, 1, w[1], w[2]) = <<>>

\* a window that begins after a NoteOn: the deferred release of the note is
\* an orphan of the slice and arrives while the local pedal is down
C9_Witness ==
    \E w \in Windows :
        LET slice == Slice(w)
        IN \E n \in 1..Len(slice) :
              LET ls == LocalState(w, n - 1)
                  e == slice[n]
              IN /\ e.type = "noteoff_deferred"
                 /\ ~EntryHas(ls.active, KeyOf(e.ch, e.note))
                 /\ ls.sustain[e.ch]
                 /\ LocalState(w, n) = ls
                 /\ NotesOf(w) = <<>>

\* an interval lies in the window and is longer than zero
InWindow(n, windowStart, windowEnd) ==
    /\ windowStart <= n.startMs
    /\ n.startMs < n.endMs
    /\ n.endMs <= windowEnd

\* C10: every interval reconstruction returns satisfies windowStart <=
\* startMs < endMs <= windowEnd, whether _reconstructNotes is handed the
\* whole buffer or, as by _saveRange, the events of the window only.
C10_IntervalsInWindow ==
    \A w \in Windows :
        /\ \A notes \in {ReplayNotes(events, w[1], w[2])} :
              \A i \in 1..Len(notes) : InWindow(notes[i], w[1], w[2])
        /\ \A byTrack \in {SaveRangeNotes(events, w[1], w[2], TRUE)} :
              \A i \in 1..Len(byTrack) : \A j \in 1..Len(byTrack[i].val) :
                  InWindow(byTrack[i].val[j], w[1], w[2])

\* a note that begins before the window and ends in it is returned with its
\* start clamped to windowStart, and dropped when the window ends there too
C10_Witness ==
    \E o, r \in 1..Len(events) : \E windowStart \in Times :
        /\ o < r
        /\ IsNoteOn(events[o])
        /\ events[r].type = "noteoff"
        /\ HasKey(events[r], events[o].ch, events[o].note)
        /\ events[o].t < windowStart
        /\ windowStart < events[r].t
        /\ [ch |-> events[o].ch, note |-> events[o].note, startMs |-> windowStart,
            endMs |-> events[r].t, vel |-> events[o].vel]
              \in AllNotes(ReconstructNotes(events, windowStart, events[r].t, FALSE))
        /\ ReplayNotes(events, windowStart, windowStart) = <<>>

(* --------------------------- claims of takes --------------------------- *)

\* a note-on with velocity above zero
IsNoteOnMsg(data) == TypeOf(data[1]) = 144 /\ Byte(data, 2) # Undefined /\ Byte(data, 2) > 0

\* a sustain message that finds the pedal of its channel up and presses it
IsPedalDownEdge(data) ==
    IsSustain(data) /\ data[3] >= 64 /\ ~SustainDown(sustain, ChannelOf(data[1]))

IsPitchBendMsg(data) == TypeOf(data[1]) = 224

\* a message of none of the four kinds _onMIDIMessage tells apart
IsRawMsg(data) == TypeOf(data[1]) \notin {144, 128, 176, 224}

\* the Take _startTake opens at clock reading t
OpenedAt(t) == [startMs |-> t, lastActivityMs |-> t]

\* C11: when no Take is open, a note-on with velocity above zero, a sustain
\* pedal-down edge or a pitch-bend message opens a Take whose startMs and
\* lastActivityMs are the time of the message, and arms the idle timer for
\* takeIdleSeconds from then.
C11_IdleToRecording ==
    [][\A data \in TakeMsgs :
         (/\ currentTake = Null
          /\ IsNoteOnMsg(data) \/ IsPedalDownEdge(data) \/ IsPitchBendMsg(data)
          /\ OnMIDIMessage(data))
         => /\ currentTake' = OpenedAt(now)
            /\ idleTimer' = IdleTimerDue(now, takeIdleMs)
            /\ idleTimer'.due \in timeouts'
            /\ UNCHANGED takes]_vars

\* a pedal-down edge, after a Take has closed, has opened the second Take at
\* its own time, later than zero
C11_Witness ==
    /\ Len(takes) = 1
    /\ currentTake # Null
    /\ Len(events) > 1
    /\ LastEvent.type = "cc" /\ LastEvent.cc = 64 /\ LastEvent.val >= 64
    /\ LastEvent.t > 0
    /\ currentTake = OpenedAt(LastEvent.t)
    /\ idleTimer = IdleTimerDue(LastEvent.t, takeIdleMs)
    /\ timeouts = {idleTimer.due}

\* C12: a message that is not note-on, note-off, control-change or
\* pitch-bend is recorded as a Raw event with its bytes, and when no Take is
\* open it opens one whose startMs is the time of the message.
C12_RawOpensTake ==
    [][\A data \in TakeMsgs :
         (/\ currentTake = Null
          /\ IsRawMsg(data)
          /\ OnMIDIMessage(data))
         => /\ events' = Append(events, RawEvent(now, ChannelOf(data[1]), data))
            /\ currentTake' = OpenedAt(now)]_vars

\* what the code does keep of C12: the message is recorded as a Raw event
\* with its bytes; an open Take has its last activity moved to the time of
\* the message, and no Take is opened
C12_RawRecorded ==
    [][\A data \in TakeMsgs :
         (IsRawMsg(data) /\ OnMIDIMessage(data))
         => /\ events' = Append(events, RawEvent(now, ChannelOf(data[1]), data))
            /\ (currentTake = Null => currentTake' = Null)
            /\ (currentTake # Null
                => currentTake' = [currentTake EXCEPT !.lastActivityMs = now])]_vars

\* a program change is in the buffer and no Take has ever been opened
C12_Witness ==
    /\ Len(events) = 1
    /\ events[1] = RawEvent(events[1].t, 1, <<192, 5>>)
    /\ currentTake = Null
    /\ takes = <<>>
    /\ timeouts = {}

\* the step closes the open Take into the take list
ClosesTake ==
    /\ currentTake # Null
    /\ currentTake' = Null
    /\ Len(takes') = Len(takes) + 1

\* C13: while a Take is open, every message sets the Take's lastActivityMs to
\* its time and re-arms the idle timer to a full takeIdleSeconds from then;
\* the timer before it is cancelled: at most one timeout is pending, and a
\* Take is closed only by the timer armed last, not before it is due.
C13_RecordingSelfLoop ==
    [][/\ \A data \in TakeMsgs :
             (currentTake # Null /\ OnMIDIMessage(data))
             => /\ currentTake' = [currentTake EXCEPT !.lastActivityMs = now]
                /\ idleTimer' = IdleTimerDue(now, takeIdleMs)
                /\ timeouts' = {now + takeIdleMs}
       /\ Cardinality(timeouts') <= 1
       /\ ClosesTake => (idleTimer # Null /\ now >= idleTimer.due)]_vars

\* a Take that a second message has kept open past the due time of the timer
\* its first message armed
C13_Witness ==
    /\ currentTake # Null
    /\ currentTake.lastActivityMs > currentTake.startMs
    /\ now >= currentTake.startMs + takeIdleMs
    /\ now < currentTake.lastActivityMs + takeIdleMs
    /\ timeouts = {currentTake.lastActivityMs + takeIdleMs}
    /\ idleTimer = IdleTimerDue(currentTake.lastActivityMs, takeIdleMs)

\* C14: when the idle timer fires, the open Take is closed with endMs equal
\* to its lastActivityMs, not to the time of the firing; it is appended to
\* the end of the take list, and no Take is open afterwards.
C14_RecordingToIdle ==
    [][(currentTake # Null /\ IdleTimerFire)
       => /\ takes' = Append(takes, [startMs |-> currentTake.startMs,
                                     endMs |-> currentTake.lastActivityMs])
          /\ currentTake' = Null
          /\ idleTimer' = Null
          /\ timeouts' = {}]_vars

\* the timer has fired: the closed Take ends at its last activity, which is
\* later than its start and earlier than the clock reading of the firing
C14_Witness ==
    /\ Len(takes) = 1
    /\ currentTake = Null
    /\ timeouts = {}
    /\ takes[1].startMs < takes[1].endMs
    /\ takes[1].endMs < now
    /\ LastEvent.t = takes[1].endMs

\* the buffer holds one event, of a kind that opens a Take: a NoteOn, a pitch
\* bend, a pedal-down or another controller
SingleActivityEvent ==
    /\ Len(events) = 1
    /\ \/ events[1].type \in {"noteon", "pitchbend"}
       \/ events[1].type = "cc" /\ (events[1].cc # 64 \/ events[1].val >= 64)

\* one closed Take of length zero at the time of the single event, none open
SingleEventTake ==
    /\ Len(takes) = 1
    /\ currentTake = Null
    /\ takes[1].startMs = events[1].t
    /\ takes[1].endMs - takes[1].startMs = 0

TakeOpenChanges == (currentTake = Null) # (currentTake' = Null)

\* the step opens a Take at the clock reading, on a NoteOn or a pedal-down edge
OpensOnActivity ==
    /\ currentTake = Null
    /\ currentTake' = [startMs |-> now, lastActivityMs |-> now]
    /\ \E data \in PageMsgs :
          /\ IsNoteOnMsg(data) \/ IsPedalDownEdge(data)
          /\ OnMIDIMessage(data)

\* the step is the idle timer closing the open Take
ClosesOnIdleTimer ==
    /\ currentTake # Null
    /\ currentTake' = Null
    /\ idleTimer # Null /\ now >= idleTimer.due
    /\ IdleTimerFire

\* the step is clear() dropping the open Take
ClosesOnClear ==
    /\ currentTake # Null
    /\ currentTake' = Null
    /\ takes' = <<>>
    /\ Clear

\* the operations the claim lists: a note termination, a pedal-up, a GC
\* sweep, a settings change, a persistence save, an export
ListedOperation ==
    \/ \E data \in PageMsgs :
          /\ TypeOf(data[1]) = 128 \/ (TypeOf(data[1]) = 176 /\ data[3] < 64)
          /\ OnMIDIMessage(data)
    \/ Gc
    \/ \E v \in IdleInputs : SettingsChange(v)
    \/ SaveState
    \/ \E index \in 0..Len(takes) : SaveTake(index)

\* C16 as stated: whether a Take is open changes only when an activity event
\* opens one or the idle timer closes one.
C16_OnlyTwoTransitions ==
    [][TakeOpenChanges => (OpensOnActivity \/ ClosesOnIdleTimer)]_vars

\* C16: whether a Take is open changes only when an activity event opens
\* one, when the idle timer closes one, or when clear() drops one; a note
\* termination, a pedal-up, a GC sweep, a settings change, a persistence save
\* and an export leave the open Take and the take list as they are.
C16_TakeTransitions ==
    [][/\ TakeOpenChanges => (OpensOnActivity \/ ClosesOnIdleTimer \/ ClosesOnClear)
       /\ \/ /\ (currentTake' = Null) <=> (currentTake = Null)
             /\ takes' = takes
          \/ ~ListedOperation]_vars

\* a Take is open, its last message was a note termination, and the state
\* was saved after that
C16_Witness ==
    /\ currentTake # Null
    /\ events # <<>>
    /\ LastEvent.type = "noteoff"
    /\ LastEvent.t > currentTake.startMs
    /\ stored # Null
    /\ Len(stored.events) = Len(events)
    /\ stored.events[Len(events)].type = "noteoff"

\* C17: an export leaves the capture state as it was: the open Take with its
\* lastActivityMs, the idle timer, the list of closed takes, the buffer in
\* content and order, the ActiveNote map and the pedal and pending state.
C17_ExportReadOnly ==
    [][\A index \in 0..Len(takes) :
          SaveTake(index)
          => /\ currentTake' = currentTake
             /\ idleTimer' = idleTimer /\ timeouts' = timeouts
             /\ takes' = takes
             /\ events' = events
             /\ active' = active
             /\ sustain' = sustain /\ pendingRelease' = pendingRelease]_vars

\* a file with a note in it has been written; a Take is open, a key is down,
\* and the buffer holds an event from outside the exported take
C17_Witness ==
    /\ exported # <<>>
    /\ exported[1] # <<>>
    /\ currentTake # Null
    /\ active # <<>>
    /\ takes # <<>>
    /\ LastEvent.t > takes[1].endMs

\* C18: the closed takes are chronological and do not overlap: every take of
\* the list has startMs <= endMs, of two neighbours the earlier ends at or
\* before the start of the later, and an open Take starts at or after the
\* end of the last closed take.
C18_TakesChronological ==
    /\ \A i \in 1..Len(takes) : takes[i].startMs <= takes[i].endMs
    /\ \A i \in 1..(Len(takes) - 1) : takes[i].endMs <= takes[i + 1].startMs
    /\ (currentTake # Null /\ takes # <<>>)
       => takes[Len(takes)].endMs <= currentTake.startMs

\* two closed takes restored from the stored state, the second away from a
\* whole millisecond when it was saved, and a Take opened after the reload
C18_Witness ==
    /\ Len(takes) = 2
    /\ currentTake # Null
    /\ stored # Null
    /\ Len(stored.takes) = 2
    /\ takes[1].endMs < takes[2].startMs
    /\ takes[2].endMs < currentTake.startMs
    /\ currentTake.startMs >= MinReloadMs * TicksPerMs

\* the event was restored from the stored state
IsRestored(e) == "tAbs" \in DOMAIN e

\* C19: the timestamps of the buffer never decrease in insertion order, after
\* any sequence of messages, GC sweeps, saves and a restore of the state
\* followed by new captures.
C19_BufferOrder ==
    \A i \in 1..(Len(events) - 1) : events[i].t <= events[i + 1].t

\* two restored events and one captured after the restore; the second stands
\* at the first whole millisecond and the page was loaded too early for an
\* event of that time: the rounding of its stored time has moved it
C19_Witness ==
    /\ Len(events) = 3
    /\ IsRestored(events[1]) /\ IsRestored(events[2]) /\ ~IsRestored(events[3])
    /\ events[1].t < events[2].t
    /\ events[2].t < events[3].t
    /\ events[2].t = TicksPerMs
    /\ now < LoadClock(TicksPerMs, 0)

\* the places of the buffer whose events are at or after the horizon
KeptByGc == {i \in 1..Len(events) : events[i].t >= now - MaxMs}

\* C20: a GC sweep at the clock reading `now` with the horizon MaxMs removes
\* exactly the events with t < now - MaxMs and keeps every event with
\* t >= now - MaxMs, in the order they had; when now - MaxMs <= 0 the buffer
\* is unchanged.
C20_GcSweep ==
    [][Gc => /\ Len(events') = Cardinality(KeptByGc)
             /\ \A i \in KeptByGc :
                   events'[Cardinality({j \in KeptByGc : j <= i})] = events[i]
             /\ (now - MaxMs <= 0) => (events' = events)]_vars

\* a sweep has removed the event that opened the first take and kept an
\* event that stands exactly at the horizon
C20_Witness ==
    /\ stored = Null
    /\ takes # <<>>
    /\ takes[1].startMs = 0
    /\ events # <<>>
    /\ events[1].t > 0
    /\ events[1].t = now - MaxMs

(* ---------------------------- claims of GC ---------------------------- *)

\* the events of the buffer that a pending key of an open Take rests on: its
\* NoteOn and its deferred termination
PendingKeyEvents ==
    {i \in 1..Len(events) :
        /\ currentTake # Null
        /\ events[i].type \in {"noteon", "noteoff_deferred"}
        /\ \E ch \in Channels : KeyOf(events[i].ch, events[i].note) \in Elems(pendingRelease[ch])}

\* the event is in the buffer after the step
StaysInBuffer(e) == \E j \in 1..Len(events') : events'[j] = e

\* C21: a GC sweep changes the event log only: the ActiveNote map, the pedal
\* flag and the pending keys of every channel, the open Take, the idle timer
\* and the list of closed takes are the same before and after it.
C21_GcFrame ==
    [][Gc => /\ active' = active
             /\ sustain' = sustain
             /\ pendingRelease' = pendingRelease
             /\ currentTake' = currentTake
             /\ idleTimer' = idleTimer /\ timeouts' = timeouts
             /\ takes' = takes]_vars

\* a sweep has removed the NoteOn of a key that is still down and pending
\* under a held pedal, in an open Take
C21_Witness ==
    /\ currentTake # Null
    /\ idleTimer # Null
    /\ sustain[1]
    /\ pendingRelease[1] # <<>>
    /\ KeyOf(1, 60) \in DOMAIN active
    /\ events # <<>>
    /\ active[KeyOf(1, 60)].tOn < events[1].t

\* C22 as stated: while a key is pending in an open Take, its NoteOn and its
\* deferred termination are still in the buffer after every GC sweep.
C22_GcKeepsPendingEvents ==
    [][Gc => \A i \in PendingKeyEvents : StaysInBuffer(events[i])]_vars

\* a Take is open, key 60 is pending under the held pedal, and the buffer
\* holds its deferred termination without its NoteOn
C22_Witness ==
    /\ currentTake # Null
    /\ KeyOf(1, 60) \in Elems(pendingRelease[1])
    /\ \E i \in 1..Len(events) : events[i].type = "noteoff_deferred"
    /\ \A i \in 1..Len(events) : events[i].type # "noteon"

\* C23: a second GC sweep at the clock reading of the first leaves the
\* buffer as the first left it.
C23_GcIdempotent ==
    [][Gc => GcEvents(events', now') = events']_vars

\* a sweep has removed an event and kept another: the first event of the
\* buffer is later than the start of the first take and within the horizon
C23_Witness ==
    /\ takes # <<>>
    /\ events # <<>>
    /\ Len(events) >= 2
    /\ takes[1].startMs < events[1].t
    /\ events[1].t >= now - MaxMs
    /\ now - MaxMs > 0

(* ------------------------- claims of the encoder ----------------------- *)

\* the places <<track, index>> of the intervals of the last file
Places ==
    {p \in (1..Len(exported[1])) \X (1..MaxEncNotes + 1) :
        p[2] <= Len(exported[1][p[1]].val)}

\* the interval at a place, and the note event _buildMidi made of it
IntervalAt(p) == exported[1][p[1]].val[p[2]]
EventAt(p) == midi[1][p[1]].events[p[2]]

\* the tempo of the last file
FileBpm == midi[1][1].tempo

\* the rounded number of ticks of `ms` clock ticks, as an inequality: d is
\* the integer nearest to ms / 60000 * bpm * ppq
NearestTick(d, ms, bpm) ==
    LET n == 2 * ms * bpm * PPQ
        one == 2 * 60000 * TicksPerMs
    IN (2 * d - 1) * one <= 2 * n /\ 2 * n < (2 * d + 1) * one

\* the intervals and the events of the last file stand at the same places
SamePlaces ==
    /\ Len(midi[1]) = Len(exported[1])
    /\ \A i \in 1..Len(midi[1]) : Len(midi[1][i].events) = Len(exported[1][i].val)

\* C24 as stated: for any two notes of one export, in the same or in
\* different tracks, the difference of their start ticks is the tick
\* conversion of the difference of their startMs, with or without the floor
\* of one tick
C24_RebasingExact ==
    (exported # <<>> /\ midi # <<>>) =>
        \A p, q \in Places :
            (p # q /\ IntervalAt(p).startMs <= IntervalAt(q).startMs) =>
                \A ms \in {IntervalAt(q).startMs - IntervalAt(p).startMs} :
                    \/ EventAt(q).tick - EventAt(p).tick = MsToTicks(ms, FileBpm)
                    \/ NearestTick(EventAt(q).tick - EventAt(p).tick, ms, FileBpm)

\* C24, amended: for any two notes of one export, in the same or in
\* different tracks, the later onset never gets the smaller start tick,
\* equal onsets get equal start ticks, and the difference of the start ticks
\* is within one tick of the rounded tick count of the difference of their
\* startMs
C24_RebasingWithinOneTick ==
    (exported # <<>> /\ midi # <<>>) =>
        /\ SamePlaces
        /\ \A p, q \in Places :
              (IntervalAt(p).startMs <= IntervalAt(q).startMs) =>
                  \A ms \in {IntervalAt(q).startMs - IntervalAt(p).startMs},
                     d \in {EventAt(q).tick - EventAt(p).tick} :
                      /\ d >= 0
                      /\ ms = 0 => d = 0
                      /\ \E r \in {d - 1, d, d + 1} : NearestTick(r, ms, FileBpm)

\* two tracks, the second begins later than the first, and the start ticks
\* of their first notes differ by one less than the ticks of the time between
C24_Witness ==
    /\ exported # <<>> /\ midi # <<>>
    /\ Len(exported[1]) = 2
    /\ exported[1][1].val[1].startMs = 0
    /\ exported[1][2].val[1].startMs > 0
    /\ midi[1][1].events[1].tick = 1
    /\ midi[1][2].events[1].tick >= 2
    /\ NearestTick(midi[1][2].events[1].tick, exported[1][2].val[1].startMs, FileBpm)

\* C25: every interval given to the encoder yields one note event, of the
\* interval's channel and pitch, whose duration is the number of ticks
\* nearest to the interval's length and one tick when that number is zero
C25_OneEventPerInterval ==
    (exported # <<>> /\ midi # <<>>) =>
        /\ SamePlaces
        /\ \A p \in Places :
              \A n \in {IntervalAt(p)}, e \in {EventAt(p)} :
                  /\ e.channel = n.ch
                  /\ e.pitch = <<MidiNoteToName(n.note)>>
                  /\ e.duration >= 1
                  /\ \/ NearestTick(e.duration, n.endMs - n.startMs, FileBpm)
                     \/ e.duration = 1 /\ NearestTick(0, n.endMs - n.startMs, FileBpm)

\* a file with an interval shorter than half a tick, encoded as one tick,
\* beside an interval that rounds to one tick
C25_Witness ==
    /\ exported # <<>> /\ midi # <<>>
    /\ \E p, q \in Places :
          /\ NearestTick(0, IntervalAt(p).endMs - IntervalAt(p).startMs, FileBpm)
          /\ EventAt(p).duration = 1
          /\ NearestTick(1, IntervalAt(q).endMs - IntervalAt(q).startMs, FileBpm)
          /\ EventAt(q).duration = 1

(* -------------------------- claims of failures ------------------------- *)

\* the error _buildMidi throws without its encoder
ConfigurationError == "MidiWriterJS not found. Load it before Catchonika."

\* C28: an export of a take while MidiWriter is missing leaves the
\* configuration error, writes no file, and leaves the event buffer as it
\* was
C28_MissingEncoder ==
    [][\A index \in 0..MaxExportEvents :
          (index < Len(takes) /\ SaveTakeWith(index, DEFAULT_BPM, FALSE)) =>
              /\ thrown' = ConfigurationError
              /\ UNCHANGED <<exported, midi>>
              /\ events' = events]_vars

\* the export of a take with a note in it has failed and no file was ever
\* written
C28_Witness ==
    /\ thrown = ConfigurationError
    /\ exported = <<>> /\ midi = <<>>
    /\ takes # <<>>
    /\ SaveRangeNotes(events, takes[1].startMs, takes[1].endMs, GroupByChannel) # <<>>

(* -------------------------- claims of grouping ------------------------- *)

\* the intervals of `notes` that Keep accepts, as a bag
BagOf(notes, Keep(_)) ==
    LET kept == {i \in 1..Len(notes) : Keep(notes[i])}
    IN [n \in {notes[i] : i \in kept} |-> Cardinality({i \in kept : notes[i] = n})]

\* the grouping policy for the intervals `notes` and the result byTrack: a
\* single track with all intervals, or one track for every channel that
\* has an interval, with exactly that channel's intervals
GroupingPolicy(notes, byTrack, groupByChannel) ==
    IF groupByChannel
    THEN /\ \A i, j \in 1..Len(byTrack) : byTrack[i].key = byTrack[j].key => i = j
         /\ \A i \in 1..Len(byTrack) : \E j \in 1..Len(notes) : notes[j].ch = byTrack[i].key
         /\ \A c \in {notes[j].ch : j \in 1..Len(notes)} :
               \E i \in 1..Len(byTrack) :
                   /\ byTrack[i].key = c
                   /\ BagOf(byTrack[i].val, LAMBDA n : TRUE) = BagOf(notes, LAMBDA n : n.ch = c)
    ELSE /\ Len(byTrack) = 1
         /\ BagOf(byTrack[1].val, LAMBDA n : TRUE) = BagOf(notes, LAMBDA n : TRUE)

\* C26 as stated: the export of any closed Take is one track per channel
\* with exactly that channel's intervals when groupByChannel is set, and a
\* single track with all intervals otherwise
C26_GroupingPolicy ==
    \A k \in 1..Len(takes), groupByChannel \in BOOLEAN :
        \A w \in {<<takes[k].startMs, takes[k].endMs>>} :
            GroupingPolicy(NotesOf(w), SaveRangeNotes(events, w[1], w[2], groupByChannel),
                           groupByChannel)

\* the policy holds for every range of the buffer that has an interval
C26_GroupingOfIntervals ==
    \A w \in FullWindows, groupByChannel \in BOOLEAN :
        NotesOf(w) # <<>> =>
            GroupingPolicy(NotesOf(w), SaveRangeNotes(events, w[1], w[2], groupByChannel),
                           groupByChannel)

\* two channels have an interval each in one range of the buffer
C26_TwoChannels ==
    \E w \in FullWindows : Cardinality({NotesOf(w)[j].ch : j \in 1..Len(NotesOf(w))}) = 2

\* a file without any track was written for a closed Take
C26_Witness ==
    /\ takes # <<>>
    /\ exported = <<<<>>>>
    /\ midi = <<<<>>>>

(* --------------------- claims of malformed messages -------------------- *)

\* what a message may change besides the clock
captureVars == <<events, active, sustain, pendingRelease, takes, currentTake, idleTimer,
                 timeouts, thrown>>

\* C27 as stated: an empty message and a voice message without its data
\* bytes append no event, change no ActiveNote, pedal, pending or take
\* state and raise no error
C27_MalformedIgnored ==
    [][UNCHANGED captureVars
       \/ ~(\E data \in {<<>>} \cup TruncatedMsgs : OnMIDIMessage(data))]_vars

\* the empty message is ignored, and no message raises an error
C27_EmptyIgnored ==
    [][/\ thrown' = thrown
       /\ \A t \in 0..MaxTime + 1 : OnMIDIMessageAt(<<>>, t) => UNCHANGED captureVars]_vars

\* key 60 was down in an open Take and a NoteOn without its velocity byte
\* has ended it: a noteoff is in the buffer, the key is not active any more
C27_Witness ==
    /\ Len(events) = 2
    /\ events[1].type = "noteon" /\ events[1].note = 60
    /\ events[2].type = "noteoff" /\ events[2].note = 60
    /\ events[2].t > events[1].t
    /\ active = <<>>
    /\ currentTake # Null
    /\ currentTake.lastActivityMs = events[2].t

(* --------------------------- claims of restore ------------------------- *)

\* nothing readable is stored
NothingReadable(item) == item \in {Unreadable, InvalidJson, NotAnObject}

\* _loadState fails on the item: nothing readable is stored, or the stored
\* object has a null where an event or a take is expected
RestoreFails(item) ==
    \/ NothingReadable(item)
    \/ /\ item # Null
       /\ "baseEpoch" \in DOMAIN item
       /\ \/ \E i \in 1..Len(item.events) : item.events[i] = Null
          \/ \E i \in 1..Len(item.takes) : item.takes[i] = Null

\* the page a constructor without a snapshot leaves
StartsFresh ==
    /\ events' = <<>>
    /\ takes' = <<>>
    /\ takeIdleMs' = IdleMs
    /\ now' = 0
    /\ thrown' = thrown

\* C29 as stated: when the restore fails (storage unreadable, invalid JSON,
\* or a snapshot whose fields do not have the expected shape) the new page
\* has an empty buffer, an empty take list, the constructor's settings and
\* time base, and no exception leaves the constructor
C29_SnapshotDiscarded ==
    [][~RestoreFails(stored) \/ StartsFresh \/ ~Reload]_vars

\* when nothing readable is stored the page starts fresh
C29_NothingReadable ==
    [][~NothingReadable(stored) \/ StartsFresh \/ ~Reload]_vars

\* a page restored from a snapshot with a null among its takes: the events
\* are back, the takes are not
C29_Witness ==
    /\ stored # Null
    /\ "baseEpoch" \in DOMAIN stored
    /\ Len(stored.takes) >= 2
    /\ \E i \in 1..Len(stored.takes) : stored.takes[i] = Null
    /\ events # <<>>
    /\ "tAbs" \in DOMAIN events[1]
    /\ takes = <<>>
    /\ now > 0

\* C30: _saveState writes the closed takes only, each with its end, and
\* after _loadState every take of the list has an endMs, no Take is open
\* and no idle timer is armed
C30_OpenTakeNotPersisted ==
    [][/\ (stored' = stored
           \/ ~SaveState
           \/ (/\ Len(stored'.takes) = Len(takes)
               /\ \A i \in 1..Len(stored'.takes) : "endAbs" \in DOMAIN stored'.takes[i]))
       /\ ((/\ \A i \in 1..Len(takes') : "endMs" \in DOMAIN takes'[i]
            /\ currentTake' = Null
            /\ idleTimer' = Null
            /\ timeouts' = {})
           \/ ~Reload)]_vars

\* a snapshot written while a Take was open, after a Take was closed: it
\* holds an event of the open Take and the closed takes only
C30_Witness ==
    /\ Intact(stored)
    /\ currentTake # Null
    /\ idleTimer # Null
    /\ takes # <<>>
    /\ Len(stored.takes) = Len(takes)
    /\ \E i \in 1..Len(stored.events) :
          stored.events[i].tAbs >= ToAbs(currentTake.startMs)

(* ------------------------- claims of persistence ----------------------- *)

\* the events of the buffer inside the retention horizon
InHorizon == SelectSeq(events, LAMBDA e : e.t >= now - MaxMs)

\* x is the whole millisecond nearest to y
NearestMs(x, y) ==
    /\ x % TicksPerMs = 0
    /\ 2 * (x - y) <= TicksPerMs
    /\ 2 * (y - x) <= TicksPerMs

\* r is the event e with every property but the time as it was
SameButTime(r, e) == \A f \in DOMAIN e \ {"t"} : f \in DOMAIN r /\ r[f] = e[f]

\* what a new page restores from the item, for every instant of the load
PagesOf(item) == {LoadState(item, now, phase).page : phase \in 0..(TicksPerMs - 1)}

\* C31 as stated: what _saveState writes, a new page restores as the same
\* events in the same order, the events inside the retention horizon with
\* their times rounded to whole milliseconds, and as the same closed takes
\* with the same startMs and endMs
C31_RoundTrip ==
    [][\A outcome \in {"stored", "trimmed"} :
          SaveStateWith(outcome) =>
              \A page \in PagesOf(stored') :
                  /\ Len(page.events) = Len(InHorizon)
                  /\ \A i \in 1..Len(page.events) :
                        /\ SameButTime(page.events[i], InHorizon[i])
                        /\ NearestMs(page.events[i].t, InHorizon[i].t)
                  /\ page.takes = takes]_vars

\* C31, amended: the events inside the retention horizon come back in
\* their order with their times rounded to whole milliseconds, all of them
\* when the snapshot fits the storage and the newer half (from place
\* floor(n / 2) on) when only the trimmed snapshot fits; the closed takes
\* come back all, with startMs and endMs rounded to whole milliseconds
C31_RoundTripRounded ==
    [][\A outcome \in {"stored", "trimmed"} :
          SaveStateWith(outcome) =>
              \A page \in PagesOf(stored'),
                 k \in {IF outcome = "trimmed" THEN Len(InHorizon) \div 2 ELSE 0} :
                  /\ Len(page.events) = Len(InHorizon) - k
                  /\ \A i \in 1..Len(page.events) :
                        /\ SameButTime(page.events[i], InHorizon[i + k])
                        /\ NearestMs(page.events[i].t, InHorizon[i + k].t)
                  /\ Len(page.takes) = Len(takes)
                  /\ \A i \in 1..Len(takes) :
                        /\ NearestMs(page.takes[i].startMs, takes[i].startMs)
                        /\ NearestMs(page.takes[i].endMs, takes[i].endMs)]_vars

\* a new page has restored two events and a take from the snapshot, at the
\* times the snapshot holds for them
C31_Witness ==
    /\ Intact(stored)
    /\ Len(events) = 2 /\ Len(stored.events) = 2
    /\ Len(takes) = 1 /\ Len(stored.takes) = 1
    /\ \A i \in 1..Len(events) :
          IsRestored(events[i]) /\ events[i].t = stored.events[i].tAbs - stored.baseEpoch
    /\ takes[1].endMs = stored.takes[1].endAbs - stored.baseEpoch
    /\ takes[1].startMs < takes[1].endMs
    /\ currentTake = Null
    /\ now >= MinReloadMs * TicksPerMs

(* ------------------------- claims of the tracker ------------------------ *)

\* the ActiveNotes of channel c are the same before and after the step
SameActiveOf(c) ==
    /\ \A k \in DOMAIN active : ChOfKey(k) = c => k \in DOMAIN active' /\ active'[k] = active[k]
    /\ \A k \in DOMAIN active' : ChOfKey(k) = c => k \in DOMAIN active

\* C33: a sustain change on channel c sets only c's pedal flag and appends
\* only events of c; the pedal flag, the pending keys and the ActiveNotes of
\* every other channel stay as they were. A termination of an active key is
\* deferred exactly when the pedal flag of the key's own channel is down, and
\* changes no pedal flag and no other channel's pending keys.
C33_PedalPerChannel ==
    [][\A data \in TwoChannelMsgs :
         LET ch == ChannelOf(data[1])
             key == KeyOf(ch, data[2])
         IN /\ (IsSustain(data) /\ OnMIDIMessageLater(data))
               => /\ sustain'[ch] = (data[3] >= 64)
                  /\ \A i \in 1..Len(Appended) : Appended[i].ch = ch
                  /\ \A c \in Channels \ {ch} :
                        /\ sustain'[c] = sustain[c]
                        /\ pendingRelease'[c] = pendingRelease[c]
                        /\ SameActiveOf(c)
            /\ (IsTermination(data) /\ key \in DOMAIN active /\ OnMIDIMessageLater(data))
               => /\ sustain' = sustain
                  /\ \A c \in Channels \ {ch} :
                        pendingRelease'[c] = pendingRelease[c] /\ SameActiveOf(c)
                  /\ IF sustain[ch]
                     THEN /\ Appended = <<NoteOffDeferredEvent(now', ch, data[2])>>
                          /\ key \in Elems(pendingRelease'[ch])
                          /\ active' = active
                     ELSE /\ Appended = <<NoteOffEvent(now', ch, data[2])>>
                          /\ key \notin DOMAIN active'
                          /\ pendingRelease' = pendingRelease]_vars

\* the pedal-up of channel 1 has flushed the deferred release of its key while
\* the key of channel 2 is still active, and channel 2's pedal is up
C33_Witness ==
    /\ Len(events) = 6
    /\ events[1].type = "noteon" /\ events[1].ch = 2
    /\ events[4].type = "noteoff_deferred" /\ events[4].ch = 1
    /\ events[5].type = "cc" /\ events[5].ch = 1 /\ events[5].val < 64
    /\ events[6].type = "noteoff" /\ events[6].ch = 1
    /\ KeyOf(2, 60) \in DOMAIN active
    /\ KeyOf(1, 60) \notin DOMAIN active
    /\ ~sustain[1] /\ ~sustain[2]

\* the local state of _reconstructNotes after its loop over the whole buffer,
\* with a window that holds every event
ReplayedBuffer == Replay(ReplayInit, events, 1, 0, now)

\* the interval was closed by a NoteOff the live tracker emitted: the buffer
\* holds a NoteOn of its key at its start and, after it, a NoteOff of its key
\* at its end
ResolvedLive(n) ==
    \E i \in 1..Len(events) : \E j \in (i + 1)..Len(events) :
        /\ events[i].type = "noteon" /\ HasKey(events[i], n.ch, n.note)
        /\ events[i].t = n.startMs /\ events[i].vel = n.vel
        /\ events[j].type = "noteoff" /\ HasKey(events[j], n.ch, n.note)
        /\ events[j].t = n.endMs

\* C34: after any sequence of messages the replay of the whole buffer ends
\* with the live tracker's state: its open keys with their onsets and
\* velocities are the ActiveNote map, its pedal flags are the live pedal
\* flags, its pending keys are the live pending keys in the same order; and
\* each interval it has emitted before the truncation ends at the time of a
\* NoteOff the live tracker emitted for the key after the interval's NoteOn.
C34_ReplayAgreesWithLive ==
    \A ls \in {ReplayedBuffer} :
        /\ {ls.active[i].key : i \in 1..Len(ls.active)} = DOMAIN active
        /\ \A i \in 1..Len(ls.active) :
              /\ ls.active[i].key \in DOMAIN active
              /\ active[ls.active[i].key] = ls.active[i].val
              /\ \A j \in 1..Len(ls.active) : ls.active[j].key = ls.active[i].key => j = i
        /\ ls.sustain = sustain
        /\ ls.pending = pendingRelease
        /\ \A i \in 1..Len(ls.notes) : ResolvedLive(ls.notes[i])

\* the replay has closed the note of channel 1 at a pedal-up that flushed its
\* deferred release, and the key of channel 2 is open in both trackers
C34_Witness ==
    /\ Len(events) = 6
    /\ events[5].type = "cc" /\ events[5].val < 64 /\ events[5].ch = 1
    /\ events[6].type = "noteoff" /\ events[6].t = events[5].t
    /\ Len(ReplayedBuffer.notes) = 1
    /\ ReplayedBuffer.notes[1].endMs = events[5].t
    /\ ReplayedBuffer.notes[1].ch = 1
    /\ Len(ReplayedBuffer.active) = 1
    /\ DOMAIN active = {KeyOf(2, 60)}

(* ----------------------- claims of the take export --------------------- *)

\* the intervals an export of the closed take reconstructs
TakeNotes(take) ==
    AllNotes(SaveRangeNotes(events, take.startMs, take.endMs, GroupByChannel))

\* the NoteOns of the buffer captured while the take was open
NoteOnsOf(take) ==
    {i \in 1..Len(events) :
        /\ events[i].type = "noteon"
        /\ events[i].t >= take.startMs /\ events[i].t <= take.endMs}

\* C35: for every closed Take, each NoteOn captured while it was open yields
\* an interval of its key that starts at the NoteOn when the Take's range is
\* reconstructed.
C35_NoNoteLostAtBoundary ==
    \A k \in 1..Len(takes) : \A notes \in {TakeNotes(takes[k])} :
        \A i \in NoteOnsOf(takes[k]) :
            \E n \in notes :
                /\ HasKey(events[i], n.ch, n.note)
                /\ n.startMs = events[i].t

\* a closed Take with a note still held at its end: the note was struck
\* before the Take's last activity and its interval is cut at the Take's end
C35_Witness ==
    /\ Len(takes) = 1
    /\ Len(events) = 2
    /\ events[1].type = "noteon"
    /\ events[2].type = "cc"
    /\ events[1].t = takes[1].startMs
    /\ events[2].t = takes[1].endMs
    /\ takes[1].startMs < takes[1].endMs
    /\ \E n \in TakeNotes(takes[1]) :
          n.startMs = takes[1].startMs /\ n.endMs = takes[1].endMs

(* ---------------------- claims of the pending keys ---------------------- *)

\* C36: in every reachable state each key among the pending keys of a channel
\* is a key of that channel and has an entry in the ActiveNote map.
C36_PendingKeysAreActive ==
    \A c \in Channels : \A key \in Elems(pendingRelease[c]) :
        ChOfKey(key) = c /\ key \in DOMAIN active

\* key 60 was released under the pedal: it is pending and still has its
\* ActiveNote, and the deferred release is the last event of the buffer
C36_Witness ==
    /\ pendingRelease[1] = <<KeyOf(1, 60)>>
    /\ KeyOf(1, 60) \in DOMAIN active
    /\ sustain[1]
    /\ events # <<>>
    /\ LastEvent.type = "noteoff_deferred"
    /\ active[KeyOf(1, 60)].tOn < LastEvent.t

\* the places of the buffer that hold a note event of the key
NoteEventsOf(key) ==
    {i \in 1..Len(events) :
        /\ events[i].type \in {"noteon", "noteoff", "noteoff_deferred"}
        /\ KeyOf(events[i].ch, events[i].note) = key}

\* the latest note event of the key is a termination
LastWasTermination(key) ==
    \E i \in NoteEventsOf(key) :
        /\ IsOff(events[i])
        /\ \A j \in NoteEventsOf(key) : j <= i

\* C37: in every reachable state a key is among the pending keys of its
\* channel only while the most recent note message of the key was a
\* termination.
C37_PendingOnlyWhileReleased ==
    \A c \in Channels : \A key \in Elems(pendingRelease[c]) : LastWasTermination(key)

\* key 60 was released under the pedal and struck again, and the pedal-up
\* that followed has ended it: the NoteOff of the flush is the last event, the
\* key has no ActiveNote, and no termination of the key arrived after the
\* second NoteOn
C37_Witness ==
    /\ Len(events) = 6
    /\ events[1].type = "noteon" /\ events[1].note = 60
    /\ events[2].type = "cc" /\ events[2].val >= 64
    /\ events[3].type = "noteoff_deferred" /\ events[3].note = 60
    /\ events[4].type = "noteon" /\ events[4].note = 60
    /\ events[5].type = "cc" /\ events[5].val < 64
    /\ events[6] = NoteOffEvent(events[5].t, 1, 60)
    /\ KeyOf(1, 60) \notin DOMAIN active

(* -------------------------- claims of teardown -------------------------- *)

\* the buffer, the tracker and the take list
recordedVars == <<events, active, sustain, pendingRelease, takes, currentTake>>

\* C32: once destroy() has returned no timer of the instance is pending, no
\* input carries its handler, and no later step changes the buffer, the
\* ActiveNote map, the pedal state or the take list, however destroy() and
\* the settling of the request for MIDI access are interleaved.
C32_NothingAfterDestroy ==
    [][/\ destroyed => UNCHANGED recordedVars
       /\ destroyed' => (idleTimer' = Null /\ timeouts' = {} /\ ~gcInterval' /\ ~attached')]_vars

\* what the code does keep of C32: when the request has settled before
\* destroy() is called, nothing changes the capture state afterwards, and no
\* timer or handler is left
C32_QuietWhenSettledFirst ==
    [][/\ (destroyed /\ midiAccess \in {"released", "denied"}) => UNCHANGED recordedVars
       /\ (destroyed' /\ midiAccess' \in {"released", "denied"})
             => (idleTimer' = Null /\ timeouts' = {} /\ ~gcInterval' /\ ~attached')]_vars

\* destroy() returned while the request was pending; the access was granted
\* afterwards, and a NoteOn has been recorded by the destroyed instance: it
\* is in the buffer, a Take is open and the idle timer is pending again
C32_Witness ==
    /\ destroyed
    /\ midiAccess = "granted"
    /\ attached
    /\ Len(events) = 1
    /\ events[1].type = "noteon"
    /\ currentTake # Null
    /\ idleTimer # Null
    /\ timeouts # {}

(* ------------------------ claims of the idle timer ---------------------- *)

\* C38: until destroy() is called the idle timer is pending exactly when a
\* Take is open: with a Take open _idleTimer holds the one pending timeout,
\* with none open _idleTimer is null and no timeout is pending.
C38_TimerIffTakeOpen ==
    ~destroyed =>
        IF currentTake # Null
        THEN idleTimer # Null /\ timeouts = {idleTimer.due}
        ELSE idleTimer = Null /\ timeouts = {}

\* a Take is open on a page that was restored from a saved state holding a
\* closed take, after the idle setting was changed
C38_Witness ==
    /\ currentTake # Null
    /\ idleTimer # Null
    /\ takeIdleMs # IdleMs
    /\ Len(takes) = 1
    /\ stored # Null
    /\ Len(stored.takes) = 1
    /\ now >= MinReloadMs * TicksPerMs
    /\ takes[1].endMs < currentTake.startMs

(* ---------------------------- claims of clear --------------------------- *)

\* C39: clear() leaves, from every reachable state, the buffer, the
\* ActiveNote map, the pending keys and the take list empty, every pedal flag
\* up, no Take open and no idle timeout pending; and while no Take is open no
\* step other than clear() changes the take list, so that nothing armed
\* before clear() appends a Take after it.
C39_ClearResetsCapture ==
    [][/\ Clear => /\ events' = <<>>
                   /\ DOMAIN active' = {}
                   /\ \A c \in Channels : ~sustain'[c] /\ pendingRelease'[c] = <<>>
                   /\ takes' = <<>>
                   /\ currentTake' = Null
                   /\ idleTimer' = Null
                   /\ timeouts' = {}
       /\ (currentTake = Null /\ takes' # takes) => Clear]_vars

\* clear() was called after a Take had been closed and exported: a file is
\* there and the take list, the buffer and the tracker are empty
C39_Witness ==
    /\ exported # <<>>
    /\ takes = <<>>
    /\ events = <<>>
    /\ DOMAIN active = {}
    /\ currentTake = Null
    /\ idleTimer = Null
    /\ timeouts = {}
    /\ now > 0

====
